---- MODULE Spec2Model ----
(***************************************************************************)
(* A model of the pdf_checker application: the presenter (AppPresenter),   *)
(* its two data managers (DataManager, QuestionManager), the validator,    *)
(* the session manager, the editor form of the view and the entry point    *)
(* (main.py).  Strings that the code parses are sequences of one-character *)
(* strings; JSON objects are functions from key to value.                  *)
(***************************************************************************)
EXTENDS Integers, Sequences, FiniteSets, TLC

VARIABLES
  pc,                      \* where the process is: main / validated / exited / built / running / closed / session
  args,                    \* main.py: the three resolved paths (stems) of the command line
  exit_code,               \* main.py: the exit status, -1 while the process runs
  reported,                \* main.py: the missing files named in the reported error
  built,                   \* main.py: TRUE once ApplicationBuilder.build returned a presenter
  pdfFiles,                \* disk: stem -> "ok" | "missing" | "corrupt"
  bboxFiles,               \* disk: stem -> bbox JSON document | MissingFile | MalformedFile
  ocrFiles,                \* disk: stem -> OCR JSON document | MissingFile | MalformedFile
  sessionFile,             \* disk: the session file, a sequence of written chunks or MissingFile
  dm,                      \* AppPresenter.data_manager (a DataManager)
  qm,                      \* AppPresenter.question_manager (a QuestionManager)
  initial_question_index,  \* AppPresenter.initial_question_index
  view,                    \* MainView: editor form, last display, rubber band
  msgs,                    \* view.show_message calls of the last handler
  raised,                  \* exception that left the last handler ("none" if none)
  openDocs,                \* PDF handles that fitz.open returned and nobody closed
  opened,                  \* number of fitz.open calls that succeeded
  session_result,          \* what the last load_session call returned
  hist,                    \* history: what the last handler did (never read by the program)
  ops                      \* number of budgeted operator actions so far

vars == <<pc, args, exit_code, reported, built, pdfFiles, bboxFiles, ocrFiles,
          sessionFile, dm, qm, initial_question_index, view, msgs, raised,
          openDocs, opened, session_result, hist, ops>>

-----------------------------------------------------------------------------
(* Bounds of the model *)

\* operator actions (navigation, edits, saves, file loads, mouse events, session
\* calls) between the start of the presenter and the closing of the window
MaxOps == 2
\* how many files of the initial disk may be missing, damaged or unusual
MaxFaults == 1
\* the initial_question_index values a presenter is constructed with: 0..MaxInitialIndex
MaxInitialIndex == 3
\* how many files of the disk main.py starts on may be missing, damaged or unusual
MaxMissing == 2
\* how many keys the 'questions' object of a QuestionManager's document holds
MaxKeys == 3
\* how many options a record handed to the validator holds at most
MaxOptionCount == 3
MaxRows == 2
MaxRun == 4

-----------------------------------------------------------------------------
(* Python strings and integers *)

Digits == <<"0", "1", "2", "3", "4", "5", "6", "7", "8", "9">>

IsDigit(c) == \E d \in 1..10 : Digits[d] = c

DigitVal(c) == (CHOOSE d \in 1..10 : Digits[d] = c) - 1

IsSpace(c) == c \in {" ", "\t", "\n"}

RECURSIVE LStrip(_)
LStrip(s) == IF s # <<>> /\ IsSpace(Head(s)) THEN LStrip(Tail(s)) ELSE s

RECURSIVE RStrip(_)
RStrip(s) ==
  IF s # <<>> /\ IsSpace(s[Len(s)]) THEN RStrip(SubSeq(s, 1, Len(s) - 1)) ELSE s

\* a variant that strips nothing
Strip_nothing(s) == s

\* str.strip()
Strip(s) == RStrip(LStrip(s))

RECURSIVE DigitsValue(_)
DigitsValue(s) ==
  IF s = <<>> THEN 0
  ELSE 10 * DigitsValue(SubSeq(s, 1, Len(s) - 1)) + DigitVal(s[Len(s)])

\* int(s) for a str s: surrounding whitespace and one sign are accepted; anything
\* but a non-empty run of digits after them raises ValueError (ok = FALSE)
PyInt(s) ==
  LET t == Strip(s)
      signed == t # <<>> /\ Head(t) \in {"+", "-"}
      body == IF signed THEN Tail(t) ELSE t
      good == body # <<>> /\ \A i \in 1..Len(body) : IsDigit(body[i])
  IN IF ~good THEN [ok |-> FALSE, n |-> 0]
     ELSE [ok |-> TRUE,
           n |-> IF signed /\ Head(t) = "-" THEN 0 - DigitsValue(body)
                 ELSE DigitsValue(body)]

RECURSIVE NatStr(_)
NatStr(n) == IF n < 10 THEN <<Digits[n + 1]>> ELSE NatStr(n \div 10) \o <<Digits[(n % 10) + 1]>>

\* str(n) for an int n
PyStr(n) == IF n < 0 THEN <<"-">> \o NatStr(0 - n) ELSE NatStr(n)

\* the values of a field that may hold an int or a str
JInt(n) == [kind |-> "int", n |-> n, s |-> <<>>]
JStr(s) == [kind |-> "str", n |-> 0, s |-> s]

\* str(v) of such a value
StrOf(v) == IF v.kind = "int" THEN PyStr(v.n) ELSE v.s

\* int(v) of such a value
IntOf(v) == IF v.kind = "int" THEN [ok |-> TRUE, n |-> v.n] ELSE PyInt(v.s)

\* dict.get(k, default)
Get(d, k, default) == IF k \in DOMAIN d THEN d[k] ELSE default

\* d[k] = v on a dict
Put(d, k, v) == [f \in DOMAIN d \cup {k} |-> IF f = k THEN v ELSE d[f]]

\* the empty dict {}
EmptyDict == <<>>

\* max(a, b)
Max(a, b) == IF a >= b THEN a ELSE b

-----------------------------------------------------------------------------
(* The files on disk *)

MissingFile == [missing |-> TRUE]
MalformedFile == [malformed |-> TRUE]

\* None, for a field that otherwise holds a dict
NoneValue == [none |-> TRUE]

IsDict(d) == d \notin {MissingFile, MalformedFile, NoneValue}

\* the OCR JSON paths the operator can open; a path is named by its stem, and the
\* PDF and bbox files derived from it (presenter.py:37-43) carry the same stem
Stems == {"2018", "2019"}
DefaultStem == "2018"

\* matchColumns: null
NoMatch == [isNone |-> TRUE, columnA |-> <<>>, columnB |-> <<>>]
MatchColumns(a, b) == [isNone |-> FALSE, columnA |-> a, columnB |-> b]

\* question records as using_ai.py writes them (Question, minus questionNumber)
Q1 == [questionText |-> <<"Q", "1">>, page |-> 1, bbox |-> <<0, 0, 9, 9>>,
       options |-> << <<"a">>, <<"b">>, <<"c">>, <<"d">> >>, correctOption |-> JInt(2),
       imagePath |-> <<>>]
Q2 == [questionText |-> <<"Q", "2">>, page |-> 1, bbox |-> <<0, 10, 9, 19>>,
       options |-> << <<"a">>, <<"b">> >>, correctOption |-> JInt(5)]
Q3 == [questionText |-> <<"Q", "3">>, page |-> 2, bbox |-> <<0, 0, 9, 9>>,
       options |-> << <<"a">>, <<"b">>, <<"c">>, <<"d">> >>, correctOption |-> JInt(4),
       imagePath |-> <<"images/", "2", "0", "1", "8", "_", "4", ".jpg">>,
       matchColumns |-> MatchColumns(<< <<"p">>, <<"q">> >>, << <<"x">> >>)]

\* the OCR JSON documents a stem may hold
DocMain ==
  [examDetails |-> [year |-> 2018],
   questions |-> (<<"q", "n", "_", "1">> :> Q1) @@ (<<"q", "n", "_", "2">> :> Q2)
                 @@ (<<"q", "n", "_", "4">> :> Q3)]
DocOdd ==
  [examDetails |-> [year |-> 2018],
   questions |-> (<<"q", "n", "_", "0", "1">> :> Q1) @@ (<<"q", "n", "_", "1">> :> Q2)
                 @@ (<<"q", "n", "_", "x">> :> Q3) @@ (<<"i", "n", "f", "o">> :> Q3)]
DocEmpty == [examDetails |-> [year |-> 2018], questions |-> EmptyDict]
DocNoQuestions == [examDetails |-> [year |-> 2019]]
DocOther ==
  [examDetails |-> [year |-> 2019],
   questions |-> (<<"q", "n", "_", "1">> :> Q2) @@ (<<"q", "n", "_", "2">> :> Q1)]

\* the bbox JSON documents: question number -> {page, bbox}; the dict is tagged so
\* that it can be compared with None
BboxOf(q) == [page |-> q.page, bbox |-> q.bbox]
BboxFull ==
  [dict |-> (<<"1">> :> BboxOf(Q1)) @@ (<<"2">> :> BboxOf(Q2)) @@ (<<"4">> :> BboxOf(Q3))]
BboxPartial == [dict |-> (<<"1">> :> BboxOf(Q1)) @@ (<<"4">> :> BboxOf(Q3))]

\* the faultless disk, and what each file may be instead
GoodPdf == [s \in Stems |-> "ok"]
GoodBbox == [s \in Stems |-> BboxFull]
GoodOcr == [s \in Stems |-> IF s = DefaultStem THEN DocMain ELSE DocOther]

PdfStates == {"ok", "missing", "corrupt"}
BboxStates == {BboxFull, BboxPartial, MissingFile, MalformedFile}
OcrStates(s) ==
  IF s = DefaultStem THEN {DocMain, DocOdd, DocEmpty, MissingFile, MalformedFile}
  ELSE {DocOther, DocNoQuestions, MalformedFile}

\* the disks that differ from the disk d in at most one file
OneFileChanged(d) ==
  {d}
  \cup {[d EXCEPT !.pdf[s] = x] : s \in Stems, x \in PdfStates}
  \cup {[d EXCEPT !.bbox[s] = x] : s \in Stems, x \in BboxStates}
  \cup UNION {{[d EXCEPT !.ocr[s] = x] : x \in OcrStates(s)} : s \in Stems}

\* the disks that differ from the faultless disk in at most k files
RECURSIVE DisksWithin(_)
DisksWithin(k) ==
  IF k = 0 THEN {[pdf |-> GoodPdf, bbox |-> GoodBbox, ocr |-> GoodOcr]}
  ELSE UNION {OneFileChanged(d) : d \in DisksWithin(k - 1)}

-----------------------------------------------------------------------------
(* data/data_manager.py *)

\* DataManager.__init__
DataManager(pdf_path, bbox_json_path, ocr_json_path) ==
  [pdf_path |-> pdf_path, bbox_json_path |-> bbox_json_path, ocr_json_path |-> ocr_json_path,
   doc |-> 0, bbox_data |-> NoneValue, ocr_data |-> NoneValue]

\* DataManager.load_all_data on the disk (pdfs, bboxes, ocrs); h is the handle a
\* successful fitz.open returns.  The three steps run in order and the first
\* exception ends the call, leaving what the earlier steps assigned.
load_all_data(d, pdfs, bboxes, ocrs, h) ==
  IF pdfs[d.pdf_path] # "ok" THEN [dm |-> d, ok |-> FALSE, opened |-> FALSE]
  ELSE LET d1 == [d EXCEPT !.doc = h] IN
    IF ~IsDict(bboxes[d.bbox_json_path]) THEN [dm |-> d1, ok |-> FALSE, opened |-> TRUE]
    ELSE LET d2 == [d1 EXCEPT !.bbox_data = bboxes[d.bbox_json_path]] IN
      IF ~IsDict(ocrs[d.ocr_json_path]) THEN [dm |-> d2, ok |-> FALSE, opened |-> TRUE]
      ELSE [dm |-> [d2 EXCEPT !.ocr_data = ocrs[d.ocr_json_path]], ok |-> TRUE, opened |-> TRUE]

\* DataManager.save_ocr_data: the file after the call; written = FALSE is open()
\* raising (the file is then left as it was) and the method returning False
save_ocr_data(d, ocrs, written) ==
  IF written THEN [ocrs EXCEPT ![d.ocr_json_path] = d.ocr_data] ELSE ocrs

\* DataManager.close_document
close_document(d) == IF d.doc # 0 THEN [d EXCEPT !.doc = 0] ELSE d

-----------------------------------------------------------------------------
(* data/question_manager.py *)

\* QuestionManager.__init__
QuestionManager == [question_keys |-> <<>>, current_question_index |-> 0]

QnPrefix == <<"q", "n", "_">>

\* key.startswith('qn_')
StartsWithQn(key) == Len(key) >= 3 /\ SubSeq(key, 1, 3) = QnPrefix

\* the keys of initialize_questions whose suffix int() accepts
NumberedKeys(questions) ==
  {k \in DOMAIN questions : StartsWithQn(k) /\ PyInt(SubSeq(k, 4, Len(k))).ok}

KeyNumber(k) == PyInt(SubSeq(k, 4, Len(k))).n

\* a variant that sorts in descending order
RECURSIVE SortedKeyStrings_descending(_)
SortedKeyStrings_descending(keys) ==
  IF keys = {} THEN <<>>
  ELSE LET m == CHOOSE k \in keys : \A j \in keys : KeyNumber(k) >= KeyNumber(j)
       IN <<PyStr(KeyNumber(m))>> \o SortedKeyStrings_descending(keys \ {m})

\* [str(k) for k in sorted(extracted_keys)], one entry per key of the dict
RECURSIVE SortedKeyStrings(_)
SortedKeyStrings(keys) ==
  IF keys = {} THEN <<>>
  ELSE LET m == CHOOSE k \in keys : \A j \in keys : KeyNumber(k) <= KeyNumber(j)
       IN <<PyStr(KeyNumber(m))>> \o SortedKeyStrings(keys \ {m})

\* QuestionManager.initialize_questions
initialize_questions(q, d) ==
  IF ~IsDict(d.ocr_data) \/ DOMAIN d.ocr_data = {} \/ "questions" \notin DOMAIN d.ocr_data
  THEN [qm |-> q, ok |-> FALSE]
  ELSE LET keys == SortedKeyStrings(NumberedKeys(d.ocr_data.questions))
       IN [qm |-> [q EXCEPT !.question_keys = keys], ok |-> Len(keys) > 0]

\* QuestionManager.get_current_question_key; None is the empty string, which the
\* callers' "if not question_key" cannot tell from None
get_current_question_key(q) ==
  IF 0 <= q.current_question_index /\ q.current_question_index < Len(q.question_keys)
  THEN q.question_keys[q.current_question_index + 1]
  ELSE <<>>

\* QuestionManager.get_question_bbox_data
get_question_bbox_data(d, question_key) ==
  IF IsDict(d.bbox_data) /\ DOMAIN d.bbox_data.dict # {}
  THEN Get(d.bbox_data.dict, question_key, NoneValue)
  ELSE NoneValue

\* a variant that finds no record
get_question_ocr_data_empty(d, question_key) == EmptyDict

\* QuestionManager.get_question_ocr_data
get_question_ocr_data(d, question_key) ==
  IF IsDict(d.ocr_data) /\ DOMAIN d.ocr_data # {}
  THEN Get(Get(d.ocr_data, "questions", EmptyDict), QnPrefix \o question_key, EmptyDict)
  ELSE EmptyDict

\* a variant that rebuilds the questions dictionary around the one record
update_question_ocr_data_alone(d, question_key, data) ==
  LET o1 == IF IsDict(d.ocr_data) THEN d.ocr_data ELSE EmptyDict
  IN [d EXCEPT !.ocr_data = Put(o1, "questions", Put(EmptyDict, QnPrefix \o question_key, data))]

\* QuestionManager.update_question_ocr_data: the data manager after the call
\* (the method returns True)
update_question_ocr_data(d, question_key, data) ==
  LET o1 == IF IsDict(d.ocr_data) THEN d.ocr_data ELSE EmptyDict
      o2 == IF "questions" \in DOMAIN o1 THEN o1 ELSE Put(o1, "questions", EmptyDict)
  IN [d EXCEPT !.ocr_data = Put(o2, "questions", Put(o2.questions, QnPrefix \o question_key, data))]

can_go_previous(q) == q.current_question_index > 0

\* a variant that counts one position past the last
can_go_next_inclusive(q) == q.current_question_index < Len(q.question_keys)

\* QuestionManager.can_go_next
can_go_next(q) == q.current_question_index < Len(q.question_keys) - 1

\* QuestionManager.go_to_question
go_to_question(q, index) ==
  IF 0 <= index /\ index < Len(q.question_keys)
  THEN [qm |-> [q EXCEPT !.current_question_index = index], ok |-> TRUE]
  ELSE [qm |-> q, ok |-> FALSE]

\* a variant that goes back to the first question
go_to_previous_to_first(q) ==
  IF can_go_previous(q)
  THEN [qm |-> [q EXCEPT !.current_question_index = 0], ok |-> TRUE]
  ELSE [qm |-> q, ok |-> FALSE]

\* QuestionManager.go_to_previous
go_to_previous(q) ==
  IF can_go_previous(q)
  THEN [qm |-> [q EXCEPT !.current_question_index = @ - 1], ok |-> TRUE]
  ELSE [qm |-> q, ok |-> FALSE]

\* a variant that steps forward without asking can_go_next
go_to_next_unchecked(q) ==
  [qm |-> [q EXCEPT !.current_question_index = @ + 1], ok |-> TRUE]

\* QuestionManager.go_to_next
go_to_next(q) ==
  IF can_go_next(q)
  THEN [qm |-> [q EXCEPT !.current_question_index = @ + 1], ok |-> TRUE]
  ELSE [qm |-> q, ok |-> FALSE]

-----------------------------------------------------------------------------
(* data/validator.py *)

\* a variant that accepts any integer as the correct option
validate_question_data_any_number(data) ==
  LET options == Get(data, "options", <<>>)
      correct_opt == IntOf(Get(data, "correctOption", JInt(0)))
      e1 == IF Strip(Get(data, "questionText", <<>>)) = <<>>
            THEN <<"Question text cannot be empty">> ELSE <<>>
      e2 == IF Len(options) < 2 THEN <<"At least 2 options required">> ELSE <<>>
      e3 == IF ~correct_opt.ok THEN <<"Correct option must be a valid number">> ELSE <<>>
      errors == e1 \o e2 \o e3
  IN [is_valid |-> Len(errors) = 0, errors |-> errors]

\* DataValidator.validate_question_data
validate_question_data(data) ==
  LET options == Get(data, "options", <<>>)
      correct_opt == IntOf(Get(data, "correctOption", JInt(0)))
      e1 == IF Strip(Get(data, "questionText", <<>>)) = <<>>
            THEN <<"Question text cannot be empty">> ELSE <<>>
      e2 == IF Len(options) < 2 THEN <<"At least 2 options required">> ELSE <<>>
      e3 == IF ~correct_opt.ok THEN <<"Correct option must be a valid number">>
            ELSE IF ~(1 <= correct_opt.n /\ correct_opt.n <= Len(options))
                 THEN <<"Correct option index out of range">> ELSE <<>>
      errors == e1 \o e2 \o e3
  IN [is_valid |-> Len(errors) = 0, errors |-> errors]

-----------------------------------------------------------------------------
(* ui/managers/table_manager.py and the editor form of ui/main_view.py *)

NoItem == [has |-> FALSE, text |-> <<>>]
Item(t) == [has |-> TRUE, text |-> t]

\* TableManager.populate_table: the rows of tbl_match after the call
populate_table(match_data) ==
  IF match_data.isNone THEN <<>>
  ELSE LET col_a == match_data.columnA
           col_b == match_data.columnB
       IN [r \in 1..Max(Len(col_a), Len(col_b)) |->
             [a |-> IF r <= Len(col_a) THEN Item(col_a[r]) ELSE NoItem,
              b |-> IF r <= Len(col_b) THEN Item(col_b[r]) ELSE NoItem]]

\* TableManager.get_table_data
get_table_data(rows) ==
  IF Len(rows) = 0 THEN NoMatch
  ELSE MatchColumns([r \in 1..Len(rows) |-> IF rows[r].a.has THEN rows[r].a.text ELSE <<>>],
                    [r \in 1..Len(rows) |-> IF rows[r].b.has THEN rows[r].b.text ELSE <<>>])

\* the number of option line edits of the editor
EditorOptions == 4

\* MainView._update_editor_fields: the editor form filled from a question record
update_editor_fields(ocr_data) ==
  LET options == Get(ocr_data, "options", <<>>) IN
  [questionText |-> Get(ocr_data, "questionText", <<>>),
   options |-> [i \in 1..EditorOptions |-> IF i <= Len(options) THEN options[i] ELSE <<>>],
   answer |-> IF "correctOption" \in DOMAIN ocr_data THEN StrOf(ocr_data.correctOption) ELSE <<>>,
   imagePath |-> Get(ocr_data, "imagePath", <<>>),
   table |-> populate_table(Get(ocr_data, "matchColumns", NoMatch))]

\* MainView.get_editor_data
get_editor_data(form) ==
  [questionText |-> form.questionText, options |-> form.options,
   correctOption |-> JStr(form.answer), imagePath |-> form.imagePath,
   matchColumns |-> get_table_data(form.table)]

\* nothing displayed yet
NoDisplay == [any |-> FALSE, key |-> <<>>, index |-> 0, total |-> 0,
              prev_state |-> "disabled", next_state |-> "disabled", ocr_data |-> EmptyDict]

\* QRect as Qt keeps it: the corners (x1, y1) and (x2, y2), both inside the rectangle
Rect(x1, y1, x2, y2) == [x1 |-> x1, y1 |-> y1, x2 |-> x2, y2 |-> y2]

\* QRect(): the null rectangle
NullRect == Rect(0, 0, -1, -1)

\* QRect(topLeft, QSize()): a default QSize is (-1, -1)
RectOfSize(p, w, h) == Rect(p.x, p.y, p.x + w - 1, p.y + h - 1)

\* QRect.isEmpty
IsEmptyRect(r) == r.x1 > r.x2 \/ r.y1 > r.y2

\* QRect.normalized
Normalized(r) ==
  LET swapx == r.x2 < r.x1 - 1
      swapy == r.y2 < r.y1 - 1
  IN Rect(IF swapx THEN r.x2 + 1 ELSE r.x1, IF swapy THEN r.y2 + 1 ELSE r.y1,
          IF swapx THEN r.x1 - 1 ELSE r.x2, IF swapy THEN r.y1 - 1 ELSE r.y2)

\* QRect.translated
Translated(r, dx, dy) == Rect(r.x1 + dx, r.y1 + dy, r.x2 + dx, r.y2 + dy)

Min(a, b) == IF a <= b THEN a ELSE b

\* QRect.intersected, of two rectangles that are not reversed
Intersected(r, t) ==
  LET i == Rect(Max(r.x1, t.x1), Max(r.y1, t.y1), Min(r.x2, t.x2), Min(r.y2, t.y2))
  IN IF IsEmptyRect(r) \/ IsEmptyRect(t) \/ IsEmptyRect(i) THEN NullRect ELSE i

\* the side of the (square) pdf_render_label and of the (square) page pixmap it centres
LabelSide == 6
PixmapSide == 4

NoPoint == [set |-> FALSE, x |-> 0, y |-> 0]
Point(x, y) == [set |-> TRUE, x |-> x, y |-> y]

\* the geometry of a QRubberBand that was never given one: Qt creates a child
\* widget at (0, 0), wider than high (100 x 30 pixels), here in the model's scale
RubberBandDefault == Rect(0, 0, 5, 1)

\* MainView.__init__ with SelectionManager.__init__: empty editor, nothing displayed,
\* no pixmap on the label, no drag in progress, rubber band hidden, no message
\* box on the screen
MainView ==
  [form |-> update_editor_fields(EmptyDict), shown |-> NoDisplay, has_pixmap |-> FALSE,
   message_boxes |-> <<>>, selection_origin |-> NoPoint,
   rubber_band |-> [geometry |-> RubberBandDefault, visible |-> FALSE]]

\* MainView.update_question_display
update_question_display(v, display_data) ==
  [v EXCEPT !.rubber_band.visible = FALSE,
            !.has_pixmap = TRUE,
            !.shown = display_data,
            !.form = update_editor_fields(display_data.ocr_data)]

\* the truth value of selection_origin in "... and self.selection_origin":
\* None is false, and so is QPoint(0, 0), since the Qt binding gives a class
\* that has isNull() the truth value "not isNull()"
Truth(p) == p.set /\ ~(p.x = 0 /\ p.y = 0)

\* SelectionManager.handle_mouse_event for an event of pdf_render_label:
\* kind is "press", "move" or "release" (of the left button) at pos
handle_mouse_event(v, kind, pos) ==
  IF kind = "press"
  THEN [v EXCEPT !.selection_origin = pos,
                 !.rubber_band = [geometry |-> RectOfSize(pos, -1, -1), visible |-> TRUE]]
  ELSE IF kind = "move" /\ Truth(v.selection_origin)
  THEN [v EXCEPT !.rubber_band.geometry =
          Normalized(Rect(v.selection_origin.x, v.selection_origin.y, pos.x, pos.y))]
  ELSE IF kind = "release" /\ Truth(v.selection_origin)
  THEN [v EXCEPT !.selection_origin = NoPoint]
  ELSE v

\* what SelectionManager.handle_mouse_event returns: was the event consumed
mouse_event_consumed(v, source, kind) ==
  /\ source = "pdf_render_label"
  /\ kind = "press" \/ (kind \in {"move", "release"} /\ Truth(v.selection_origin))

\* MainView.eventFilter for a mouse event (left button for press and
\* release) of the widget source at pos: the view after it
eventFilter(v, source, kind, pos) ==
  IF source = "pdf_render_label" THEN handle_mouse_event(v, kind, pos) ELSE v

\* a variant that copies the translated selection without intersecting it
\* with the pixmap
get_cropped_image_unclipped(v) ==
  LET offset == (LabelSide - PixmapSide) \div 2
  IN [view |-> [v EXCEPT !.rubber_band.visible = FALSE],
      image |-> IF ~v.has_pixmap \/ IsEmptyRect(v.rubber_band.geometry) THEN NullRect
                ELSE Translated(v.rubber_band.geometry, 0 - offset, 0 - offset)]

\* SelectionManager.get_cropped_image: the rectangle copied from the pixmap,
\* NullRect for None; the rubber band is hidden on every path
get_cropped_image(v) ==
  LET offset == (LabelSide - PixmapSide) \div 2
      selection == Intersected(Translated(v.rubber_band.geometry, 0 - offset, 0 - offset),
                               Rect(0, 0, PixmapSide - 1, PixmapSide - 1))
  IN [view |-> [v EXCEPT !.rubber_band.visible = FALSE],
      image |-> IF ~v.has_pixmap \/ IsEmptyRect(v.rubber_band.geometry) THEN NullRect
                ELSE selection]

-----------------------------------------------------------------------------
(* app/presenter.py: the methods as functions of the presenter's state         *)
(* st = [dm, qm, initial_question_index, view, msgs, openDocs, opened, faults,  *)
(* displayed]; msgs collects the view.show_message calls; faults (the failures *)
(* met) and displayed (update_question_display was called) are history, the    *)
(* code keeps neither.                                                         *)

Message(title, text, msg_type) == [title |-> title, text |-> text, msg_type |-> msg_type]

\* MainView.show_message: the body is "pass" (the message box is a TODO), the
\* view stays as it is
MainView_show_message(v, title, text, msg_type) == v

\* the presenter's call self.view.show_message(title, text, msg_type), recorded
\* in msgs
show_message(st, title, text, msg_type) ==
  [st EXCEPT !.msgs = Append(@, Message(title, text, msg_type)),
             !.view = MainView_show_message(@, title, text, msg_type)]

Fault(st, f) == [st EXCEPT !.faults = @ \cup {f}]

\* AppPresenter._show_question
show_question(st, index) ==
  LET moved == go_to_question(st.qm, index) IN
  IF ~moved.ok THEN st
  ELSE
    LET st1 == [st EXCEPT !.qm = moved.qm]
        question_key == get_current_question_key(st1.qm)
        bbox_data == get_question_bbox_data(st1.dm, question_key)
    IN IF question_key = <<>> \/ st1.dm.doc = 0 THEN st1
       ELSE IF bbox_data = NoneValue
            THEN show_message(Fault(st1, "display"), "Error", <<"Failed to display question">>, "error")
            ELSE [st1 EXCEPT !.displayed = TRUE, !.view = update_question_display(@,
                    [any |-> TRUE, key |-> question_key, index |-> index,
                     total |-> Len(st1.qm.question_keys),
                     prev_state |-> IF can_go_previous(st1.qm) THEN "normal" ELSE "disabled",
                     next_state |-> IF can_go_next(st1.qm) THEN "normal" ELSE "disabled",
                     ocr_data |-> get_question_ocr_data(st1.dm, question_key)])]

\* a variant that displays the current question again and never moves
handle_next_question_in_place(st) == show_question(st, st.qm.current_question_index)

\* AppPresenter.handle_next_question
handle_next_question(st) ==
  LET moved == go_to_next(st.qm) IN
  IF moved.ok THEN show_question([st EXCEPT !.qm = moved.qm], moved.qm.current_question_index)
  ELSE st

\* AppPresenter.handle_previous_question
handle_previous_question(st) ==
  LET moved == go_to_previous(st.qm) IN
  IF moved.ok THEN show_question([st EXCEPT !.qm = moved.qm], moved.qm.current_question_index)
  ELSE st

\* list.index(x): the first position of x, 0-based; -1 stands for ValueError
ListIndex(seq, x) ==
  IF \E i \in 1..Len(seq) : seq[i] = x
  THEN (CHOOSE i \in 1..Len(seq) : seq[i] = x /\ \A j \in 1..(i - 1) : seq[j] # x) - 1
  ELSE -1

\* handle_goto_question taking its value for a list index
handle_goto_question_by_index(st, value) == show_question(st, value)

\* AppPresenter.handle_goto_question
handle_goto_question(st, value) ==
  LET index == ListIndex(st.qm.question_keys, PyStr(value)) IN
  IF index >= 0 THEN show_question(st, index) ELSE st

\* AppPresenter.start on the disk (pdfs, bboxes, ocrs)
start(st, pdfs, bboxes, ocrs) ==
  LET loaded == load_all_data(st.dm, pdfs, bboxes, ocrs, st.opened + 1)
      st0 == [st EXCEPT !.dm = loaded.dm,
                        !.opened = IF loaded.opened THEN @ + 1 ELSE @,
                        !.openDocs = IF loaded.opened THEN @ \cup {st.opened + 1} ELSE @]
  IN IF ~loaded.ok
     THEN show_message(Fault(st0, "load"), "Error", <<"Failed to load file data.">>, "error")
     ELSE LET init == initialize_questions(st0.qm, st0.dm)
              st1 == [st0 EXCEPT !.qm = init.qm]
          IN IF ~init.ok THEN show_message(st1, "Info", <<"No questions found.">>, "info")
             ELSE show_question(st1, st1.initial_question_index)

\* AppPresenter.load_files(ocr_json_path, initial_question_index).  The call
\* drops the last references to the old DataManager without closing its
\* document; collected is whether the interpreter finalises the dropped object
\* (which closes the document) before the application ends.
load_files(st, ocr_json_path, index, collected, pdfs, bboxes, ocrs) ==
  IF pdfs[ocr_json_path] = "missing"
  THEN show_message(Fault(st, "pdf_missing"), "Error", <<"PDF file not found">>, "error")
  ELSE IF bboxes[ocr_json_path] = MissingFile
  THEN show_message(Fault(st, "bbox_missing"), "Error", <<"Bbox JSON file not found">>, "error")
  ELSE start([st EXCEPT !.dm = DataManager(ocr_json_path, ocr_json_path, ocr_json_path),
                        !.qm = QuestionManager,
                        !.initial_question_index = index,
                        !.openDocs = IF collected THEN @ \ {st.dm.doc} ELSE @],
             pdfs, bboxes, ocrs)

\* AppPresenter.handle_closing (view.destroy() ends the event loop)
handle_closing(st) ==
  [st EXCEPT !.dm = close_document(@), !.openDocs = @ \ {st.dm.doc}]

\* AppPresenter.handle_save_form_data; written is whether the file write succeeds.
\* The result carries the OCR files after the call.
handle_save_form_data(st, form_data, ocrs, written) ==
  LET question_key == get_current_question_key(st.qm)
      correct == IntOf(form_data.correctOption)
      data == [form_data EXCEPT !.correctOption = JInt(correct.n)]
      checked == validate_question_data(data)
      st1 == [st EXCEPT !.dm = update_question_ocr_data(@, question_key, data)]
  IN
  IF question_key = <<>>
  THEN [st |-> show_message(st, "Error", <<"No question selected to save.">>, "error"),
        ocrs |-> ocrs, outcome |-> "no_question"]
  ELSE IF ~correct.ok
  THEN [st |-> show_message(Fault(st, "not_a_number"), "Validation Error",
                            <<"Correct option must be a number.">>, "error"),
        ocrs |-> ocrs, outcome |-> "rejected"]
  ELSE IF ~checked.is_valid
  THEN [st |-> show_message(Fault(st, "invalid"), "Validation Error", checked.errors, "error"),
        ocrs |-> ocrs, outcome |-> "rejected"]
  ELSE IF ~written
  THEN [st |-> show_message(Fault(st1, "write"), "Error", <<"Failed to save data to file.">>, "error"),
        ocrs |-> save_ocr_data(st1.dm, ocrs, FALSE), outcome |-> "write_failed"]
  ELSE [st |-> handle_next_question(
                 show_question(show_message(st1, "Success", <<"Changes saved successfully!">>, "info"),
                               st1.qm.current_question_index)),
        ocrs |-> save_ocr_data(st1.dm, ocrs, TRUE), outcome |-> "saved"]

\* the path f"{year}_{question_key}.jpg" under the image directory, relative to
\* the project root
ImagePath(d, question_key) ==
  LET details == IF IsDict(d.ocr_data) THEN Get(d.ocr_data, "examDetails", EmptyDict) ELSE EmptyDict
      year == IF "year" \in DOMAIN details THEN PyStr(details.year) ELSE <<"unknown_year">>
  IN <<"images/">> \o year \o <<"_">> \o question_key \o <<".jpg">>

\* AppPresenter.handle_save_selection.  mkdir: does ensure_directory_exists
\* return ("ok") or raise ("raise"); image: does QImage.save write the file
\* ("ok"), return False ("false") or raise ("raise"); written: does the JSON
\* write succeed.  The result carries the OCR files and the exception that
\* leaves the handler.
handle_save_selection(st, ocrs, mkdir, image, written) ==
  LET question_key == get_current_question_key(st.qm)
      cropped == get_cropped_image(st.view)
      st0 == [st EXCEPT !.view = cropped.view]
      question_data == Put(get_question_ocr_data(st0.dm, question_key), "imagePath",
                           ImagePath(st0.dm, question_key))
      st1 == [st0 EXCEPT !.dm = update_question_ocr_data(@, question_key, question_data)]
      fi == IF image = "false" THEN {"image_write"} ELSE {}
  IN
  IF question_key = <<>>
  THEN [st |-> st, ocrs |-> ocrs, raised |-> "none", outcome |-> "no_question"]
  ELSE IF cropped.image = NullRect
  THEN [st |-> st0, ocrs |-> ocrs, raised |-> "none", outcome |-> "no_selection"]
  ELSE IF mkdir = "raise"
  THEN [st |-> Fault(st0, "mkdir"), ocrs |-> ocrs, raised |-> "OSError", outcome |-> "raised"]
  ELSE IF image = "raise"
  THEN [st |-> show_message(Fault(st0, "image_write"), "Error", <<"Failed to save selection">>, "error"),
        ocrs |-> ocrs, raised |-> "none", outcome |-> "image_failed"]
  ELSE IF ~written
  THEN [st |-> show_message([st1 EXCEPT !.faults = @ \cup fi \cup {"write"}],
                            "Error", <<"Failed to save selection">>, "error"),
        ocrs |-> save_ocr_data(st1.dm, ocrs, FALSE), raised |-> "none", outcome |-> "write_failed"]
  ELSE [st |-> show_question(
                 show_message([st1 EXCEPT !.faults = @ \cup fi], "Success",
                              <<"Screenshot saved and JSON updated.">>, "info"),
                 st1.qm.current_question_index),
        ocrs |-> save_ocr_data(st1.dm, ocrs, TRUE), raised |-> "none", outcome |-> "saved"]

-----------------------------------------------------------------------------
(* app/session_manager.py *)

\* what a session file may hold: text that is one JSON document, text that is
\* not JSON, or bytes that are not text
JsonText(v) == [kind |-> "json", value |-> v]
Garbage == [kind |-> "text", value |-> NoneValue]
Binary == [kind |-> "bytes", value |-> NoneValue]

\* a file: its chunks in the order written, and whether open() succeeds on it
File(chunks, accessible) == [chunks |-> chunks, accessible |-> accessible]

SessionData(ocr_json_path, question_index) ==
  [ocr_json_path |-> ocr_json_path, last_question_index |-> question_index]

\* a variant that opens the file for appending
save_session_appending(file, ocr_json_path, question_index) ==
  IF file = MissingFile
  THEN File(<<JsonText(SessionData(ocr_json_path, question_index))>>, TRUE)
  ELSE IF ~file.accessible THEN file
  ELSE [file EXCEPT !.chunks = Append(@, JsonText(SessionData(ocr_json_path, question_index)))]

\* SessionManager.save_session: the session file after the call.  open(..., 'w')
\* raises IOError on a file that cannot be opened (caught: the file stays as it
\* was); otherwise it truncates the file and json.dump writes the record.
save_session(file, ocr_json_path, question_index) ==
  IF file # MissingFile /\ ~file.accessible THEN file
  ELSE File(<<JsonText(SessionData(ocr_json_path, question_index))>>, TRUE)

\* SessionManager.load_session: the value returned, or the exception raised
load_session(file) ==
  IF file = MissingFile THEN [raised |-> "none", value |-> NoneValue]
  ELSE IF ~file.accessible THEN [raised |-> "none", value |-> NoneValue]
  ELSE IF \E i \in 1..Len(file.chunks) : file.chunks[i].kind = "bytes"
  THEN [raised |-> "UnicodeDecodeError", value |-> NoneValue]
  ELSE IF Len(file.chunks) = 1 /\ file.chunks[1].kind = "json"
  THEN [raised |-> "none", value |-> file.chunks[1].value]
  ELSE [raised |-> "none", value |-> NoneValue]

\* AppPresenter.save_session
presenter_save_session(st, file) ==
  IF st.dm.ocr_json_path # "" THEN save_session(file, st.dm.ocr_json_path, st.qm.current_question_index)
  ELSE file

-----------------------------------------------------------------------------
(* main.py *)

\* a variant that reports only the first missing file
MissingFiles_first(file_paths) ==
  IF file_paths = <<>> THEN <<>>
  ELSE IF ~file_paths[1].exists THEN <<file_paths[1].name>>
  ELSE IF Len(file_paths) >= 2 /\ ~file_paths[2].exists THEN <<file_paths[2].name>>
  ELSE IF Len(file_paths) >= 3 /\ ~file_paths[3].exists THEN <<file_paths[3].name>>
  ELSE <<>>

\* FileValidator.validate_files: file_paths is a list of [name, exists]
RECURSIVE MissingFiles(_)
MissingFiles(file_paths) ==
  IF file_paths = <<>> THEN <<>>
  ELSE (IF ~Head(file_paths).exists THEN <<Head(file_paths).name>> ELSE <<>>)
       \o MissingFiles(Tail(file_paths))

validate_files(file_paths) ==
  LET missing_files == MissingFiles(file_paths)
  IN [is_valid |-> Len(missing_files) = 0, missing_files |-> missing_files]

\* required_files of validate_required_files, on the disk
RequiredFiles(a, pdfs, bboxes, ocrs) ==
  <<[name |-> "pdf", exists |-> pdfs[a.pdf] # "missing"],
    [name |-> "bbox", exists |-> bboxes[a.bbox] # MissingFile],
    [name |-> "ocr", exists |-> ocrs[a.ocr] # MissingFile]>>

\* the parameters of AppPresenter.__init__ that have no default, and the
\* arguments ApplicationBuilder.build passes
PresenterRequired ==
  <<"view", "question_manager", "data_manager", "path_manager", "image_dir", "session_manager">>
BuildArguments == <<"view", "question_manager", "data_manager", "path_manager", "image_dir">>

\* ApplicationBuilder.build: does the AppPresenter(...) call bind every required
\* parameter (otherwise Python raises TypeError)
build_succeeds == Len(BuildArguments) >= Len(PresenterRequired)

-----------------------------------------------------------------------------
(* The state machine *)

\* the inputs of the operator and of the callers
AnswerTexts == {<<"x">>, <<"9">>, <<"3">>}
QuestionTexts == {<<" ">>}
GotoValues == {2, 3, 4}
ListIndexes == {-1, 0, 3}
MousePoints == {Point(1, 1), Point(3, 3)}
SessionIndexes == 0..MaxInitialIndex

\* the session files a run may find
SessionFiles ==
  {MissingFile, File(<<>>, TRUE), File(<<Garbage>>, TRUE), File(<<Binary>>, TRUE),
   File(<<JsonText([list |-> <<>>])>>, TRUE),
   File(<<JsonText(SessionData("2019", 1))>>, TRUE),
   File(<<JsonText(SessionData("2019", 1))>>, FALSE)}

NoRecord == [any |-> FALSE, path |-> "", index |-> 0]

\* a call of a QuestionManager method: its name, what it returned, the index before it
NoCall == [op |-> "init", ret |-> FALSE, before |-> 0]

InitHist ==
  [op |-> "init", outcome |-> "", key |-> <<>>, faults |-> {}, loaded |-> NoneValue,
   touched |-> {}, edited |-> {}, saved_edited |-> {}, saved_fresh |-> FALSE,
   session_called |-> NoRecord, session_saved |-> NoRecord, closed |-> NoRecord,
   ret |-> FALSE, before |-> 0, prev |-> NoCall, data |-> NoneValue, errors |-> <<>>]

\* what every run starts with: nothing loaded, nothing displayed
InitCommon ==
  /\ args = [pdf |-> DefaultStem, bbox |-> DefaultStem, ocr |-> DefaultStem]
  /\ exit_code = -1
  /\ reported = <<>>
  /\ dm = DataManager(DefaultStem, DefaultStem, DefaultStem)
  /\ qm = QuestionManager
  /\ view = MainView
  /\ msgs = <<>>
  /\ raised = "none"
  /\ openDocs = {}
  /\ opened = 0
  /\ session_result = [raised |-> "none", value |-> NoneValue]
  /\ hist = InitHist
  /\ ops = 0

OnDisk(d) == pdfFiles = d.pdf /\ bboxFiles = d.bbox /\ ocrFiles = d.ocr

\* A presenter that its caller constructed with every collaborator
\* AppPresenter.__init__ requires, on the default files, not started yet.  A
\* start index other than the default 0 counts as one departure from the
\* faultless start-up, like a file that is missing, damaged or unusual.
Init ==
  /\ pc = "built"
  /\ built = TRUE
  /\ \E k \in 0..MaxFaults :
       /\ initial_question_index \in IF k = MaxFaults THEN {0} ELSE 0..MaxInitialIndex
       /\ \E d \in DisksWithin(IF initial_question_index = 0 THEN MaxFaults ELSE MaxFaults - 1) :
            OnDisk(d)
  /\ sessionFile = MissingFile
  /\ InitCommon

\* main.py just started
InitMain ==
  /\ pc = "main"
  /\ built = FALSE
  /\ initial_question_index = 0
  /\ \E d \in DisksWithin(MaxMissing) : OnDisk(d)
  /\ sessionFile = MissingFile
  /\ InitCommon

\* a SessionManager alone, on a session file an earlier run or something else left
InitSession ==
  /\ pc = "session"
  /\ built = FALSE
  /\ initial_question_index = 0
  /\ OnDisk(CHOOSE d \in DisksWithin(0) : TRUE)
  /\ sessionFile \in SessionFiles
  /\ InitCommon

MainVars == <<args, exit_code, reported, built>>
DiskVars == <<pdfFiles, bboxFiles>>

\* the presenter's state at the start of a handler
St ==
  [dm |-> dm, qm |-> qm, initial_question_index |-> initial_question_index, view |-> view,
   msgs |-> <<>>, openDocs |-> openDocs, opened |-> opened, faults |-> {}, displayed |-> FALSE]

\* the presenter's state when a handler returns
Commit(st) ==
  /\ dm' = st.dm
  /\ qm' = st.qm
  /\ initial_question_index' = st.initial_question_index
  /\ view' = st.view
  /\ msgs' = st.msgs
  /\ openDocs' = st.openDocs
  /\ opened' = st.opened

\* history after a handler that neither loads nor saves
Seen(op, outcome, st) ==
  [hist EXCEPT !.op = op, !.outcome = outcome, !.key = <<>>, !.faults = st.faults,
               !.edited = IF st.displayed THEN {} ELSE @]

Running == pc = "running"
Budget == ops < MaxOps

\* main(): parse_arguments, then validate_required_files
MainValidate ==
  /\ pc = "main"
  /\ \E a \in [pdf : Stems, bbox : Stems, ocr : Stems] :
       LET checked == validate_files(RequiredFiles(a, pdfFiles, bboxFiles, ocrFiles)) IN
       /\ args' = a
       /\ IF checked.is_valid
          THEN pc' = "validated" /\ UNCHANGED <<exit_code, reported>>
          ELSE pc' = "exited" /\ exit_code' = 1 /\ reported' = checked.missing_files
  /\ hist' = [hist EXCEPT !.op = "validate_required_files"]
  /\ UNCHANGED <<built, DiskVars, ocrFiles, sessionFile, dm, qm, initial_question_index, view,
                 msgs, raised, openDocs, opened, session_result, ops>>

\* main(): run_application, then sys.exit(exit_code)
RunApplication ==
  /\ pc = "validated"
  /\ dm' = DataManager(args.pdf, args.bbox, args.ocr)
  /\ IF build_succeeds
     THEN /\ pc' = "built"
          /\ built' = TRUE
          /\ UNCHANGED exit_code
     ELSE /\ pc' = "exited"
          /\ built' = FALSE
          /\ exit_code' = 1
  /\ hist' = [hist EXCEPT !.op = "run_application"]
  /\ UNCHANGED <<args, reported, DiskVars, ocrFiles, sessionFile, qm, initial_question_index,
                 view, msgs, raised, openDocs, opened, session_result, ops>>

\* presenter.start(), then the event loop runs
Start ==
  /\ pc = "built"
  /\ \E st \in {start(St, pdfFiles, bboxFiles, ocrFiles)} :
       /\ Commit(st)
       /\ hist' = [Seen("start", "", st) EXCEPT !.loaded = st.dm.ocr_data, !.touched = {}]
  /\ pc' = "running"
  /\ raised' = "none"
  /\ UNCHANGED <<MainVars, DiskVars, ocrFiles, sessionFile, session_result, ops>>

\* File > Open: MainView._open_file calls presenter.load_files(file_path)
LoadFiles ==
  /\ Running /\ Budget
  /\ \E p \in Stems, collected \in BOOLEAN :
       \E st \in {load_files(St, p, 0, collected, pdfFiles, bboxFiles, ocrFiles)} :
       LET refused == st.faults \cap {"pdf_missing", "bbox_missing"} # {}
       IN /\ Commit(st)
          /\ hist' = IF refused THEN Seen("load_files", "refused", st)
                     ELSE [Seen("load_files", "", st) EXCEPT !.loaded = st.dm.ocr_data,
                                                             !.touched = {}]
  /\ raised' = "none"
  /\ ops' = ops + 1
  /\ UNCHANGED <<pc, MainVars, DiskVars, ocrFiles, sessionFile, session_result>>

HandleNext ==
  /\ Running /\ Budget
  /\ \E st \in {handle_next_question(St)} :
       Commit(st) /\ hist' = Seen("handle_next_question", "", st)
  /\ raised' = "none"
  /\ ops' = ops + 1
  /\ UNCHANGED <<pc, MainVars, DiskVars, ocrFiles, sessionFile, session_result>>

HandlePrevious ==
  /\ Running /\ Budget
  /\ \E st \in {handle_previous_question(St)} :
       Commit(st) /\ hist' = Seen("handle_previous_question", "", st)
  /\ raised' = "none"
  /\ ops' = ops + 1
  /\ UNCHANGED <<pc, MainVars, DiskVars, ocrFiles, sessionFile, session_result>>

HandleGoto ==
  /\ Running /\ Budget
  /\ \E value \in GotoValues :
       \E st \in {handle_goto_question(St, value)} :
         Commit(st) /\ hist' = [Seen("handle_goto_question", "", st) EXCEPT !.key = PyStr(value)]
  /\ raised' = "none"
  /\ ops' = ops + 1
  /\ UNCHANGED <<pc, MainVars, DiskVars, ocrFiles, sessionFile, session_result>>

\* AppPresenter.handle_listbox_select
HandleListboxSelect ==
  /\ Running /\ Budget
  /\ \E index \in ListIndexes :
       \E st \in {show_question(St, index)} :
         Commit(st) /\ hist' = Seen("handle_listbox_select", "", st)
  /\ raised' = "none"
  /\ ops' = ops + 1
  /\ UNCHANGED <<pc, MainVars, DiskVars, ocrFiles, sessionFile, session_result>>

\* the operator types into a field of the editor form
Edit(field, value) ==
  /\ Running /\ Budget
  /\ view.form[field] # value
  /\ view' = [view EXCEPT !.form[field] = value]
  /\ hist' = [hist EXCEPT !.op = "edit", !.outcome = "", !.key = <<>>, !.faults = {},
                          !.edited = @ \cup {field}]
  /\ msgs' = <<>>
  /\ raised' = "none"
  /\ ops' = ops + 1
  /\ UNCHANGED <<pc, MainVars, DiskVars, ocrFiles, sessionFile, dm, qm, initial_question_index,
                 openDocs, opened, session_result>>

EditQuestionText == \E t \in QuestionTexts : Edit("questionText", t)

EditAnswer == \E t \in AnswerTexts : Edit("answer", t)

\* Save: AppPresenter.handle_save
HandleSave ==
  /\ Running /\ Budget
  /\ \E written \in BOOLEAN :
       \E r \in {handle_save_form_data(St, get_editor_data(view.form), ocrFiles, written)} :
       LET key == get_current_question_key(qm)
           stored == r.outcome \in {"saved", "write_failed"}
       IN /\ Commit(r.st)
          /\ ocrFiles' = r.ocrs
          /\ hist' = [Seen("handle_save", r.outcome, r.st) EXCEPT
                        !.key = key,
                        !.touched = IF stored THEN @ \cup {QnPrefix \o key} ELSE @,
                        !.saved_edited = hist.edited,
                        !.saved_fresh = (QnPrefix \o key) \notin hist.touched]
  /\ raised' = "none"
  /\ ops' = ops + 1
  /\ UNCHANGED <<pc, MainVars, DiskVars, sessionFile, session_result>>

\* a left-button mouse event on pdf_render_label
MouseEvent ==
  /\ Running /\ Budget
  /\ \E kind \in {"press", "move", "release"}, pos \in MousePoints :
       /\ view' = handle_mouse_event(view, kind, pos)
       /\ view' # view
  /\ hist' = [hist EXCEPT !.op = "mouse", !.outcome = "", !.key = <<>>, !.faults = {}]
  /\ msgs' = <<>>
  /\ raised' = "none"
  /\ ops' = ops + 1
  /\ UNCHANGED <<pc, MainVars, DiskVars, ocrFiles, sessionFile, dm, qm, initial_question_index,
                 openDocs, opened, session_result>>

\* Capture: AppPresenter.handle_save_selection
HandleSaveSelection ==
  /\ Running /\ Budget
  /\ \E mkdir \in {"ok", "raise"}, image \in {"ok", "false", "raise"}, written \in BOOLEAN :
       \E r \in {handle_save_selection(St, ocrFiles, mkdir, image, written)} :
       LET key == get_current_question_key(qm)
           stored == r.outcome \in {"saved", "write_failed"}
       IN /\ Commit(r.st)
          /\ ocrFiles' = r.ocrs
          /\ raised' = r.raised
          /\ hist' = [Seen("handle_save_selection", r.outcome, r.st) EXCEPT
                        !.key = key,
                        !.touched = IF stored THEN @ \cup {QnPrefix \o key} ELSE @]
  /\ ops' = ops + 1
  /\ UNCHANGED <<pc, MainVars, DiskVars, sessionFile, session_result>>

\* AppPresenter.save_session
PresenterSaveSession ==
  /\ Running /\ Budget
  /\ sessionFile' = presenter_save_session(St, sessionFile)
  /\ hist' = [hist EXCEPT !.op = "save_session", !.outcome = "", !.key = <<>>, !.faults = {},
                          !.session_called = [any |-> TRUE, path |-> dm.ocr_json_path,
                                              index |-> qm.current_question_index],
                          !.session_saved = [any |-> TRUE, path |-> dm.ocr_json_path,
                                             index |-> qm.current_question_index]]
  /\ msgs' = <<>>
  /\ raised' = "none"
  /\ ops' = ops + 1
  /\ UNCHANGED <<pc, MainVars, DiskVars, ocrFiles, dm, qm, initial_question_index, view,
                 openDocs, opened, session_result>>

\* the window closes: AppPresenter.handle_closing
HandleClosing ==
  /\ Running
  /\ \E st \in {handle_closing(St)} :
       /\ Commit(st)
       /\ hist' = [Seen("handle_closing", "", st) EXCEPT
                     !.closed = [any |-> get_current_question_key(qm) # <<>>,
                                 path |-> dm.ocr_json_path, index |-> qm.current_question_index]]
  /\ pc' = "closed"
  /\ raised' = "none"
  /\ UNCHANGED <<MainVars, DiskVars, ocrFiles, sessionFile, session_result, ops>>

\* SessionManager.save_session(ocr_json_path, question_index)
SessionSave ==
  /\ pc = "session"
  /\ \E p \in Stems, i \in SessionIndexes :
       /\ sessionFile' = save_session(sessionFile, p, i)
       /\ hist' = [hist EXCEPT !.op = "save_session",
                     !.session_called = [any |-> TRUE, path |-> p, index |-> i],
                     !.session_saved =
                       IF sessionFile = MissingFile \/ sessionFile.accessible
                       THEN [any |-> TRUE, path |-> p, index |-> i] ELSE @]
  /\ UNCHANGED <<pc, MainVars, DiskVars, ocrFiles, dm, qm, initial_question_index, view, msgs,
                 raised, openDocs, opened, session_result, ops>>

\* SessionManager.load_session()
SessionLoad ==
  /\ pc = "session"
  /\ session_result' = load_session(sessionFile)
  /\ hist' = [hist EXCEPT !.op = "load_session"]
  /\ UNCHANGED <<pc, MainVars, DiskVars, ocrFiles, sessionFile, dm, qm, initial_question_index,
                 view, msgs, raised, openDocs, opened, ops>>

Next ==
  \/ Start
  \/ LoadFiles
  \/ HandleNext
  \/ HandlePrevious
  \/ HandleGoto
  \/ HandleListboxSelect
  \/ EditQuestionText
  \/ EditAnswer
  \/ HandleSave
  \/ MouseEvent
  \/ HandleSaveSelection
  \/ PresenterSaveSession
  \/ HandleClosing

\* the presenter under the operator's actions
Spec == Init /\ [][Next]_vars

NextMain == MainValidate \/ RunApplication

\* a run of main.py
SpecMain == InitMain /\ [][NextMain]_vars

NextSession == SessionSave \/ SessionLoad

\* the calls of a SessionManager
SpecSession == InitSession /\ [][NextSession]_vars

-----------------------------------------------------------------------------
(* A QuestionManager alone, on a DataManager whose OCR data is given *)

\* the keys the 'questions' object may hold
KeyPool ==
  {<<"q", "n", "_", "2">>, <<"q", "n", "_", "1", "0">>, <<"q", "n", "_", "0", "1">>,
   <<"q", "n", "_", "1">>, <<"q", "n", "_", "x">>, <<"i", "n", "f", "o">>,
   <<"q", "n", "_">>, <<"q", "n", "_", "-", "3">>}

\* the OCR data of the DataManager: not loaded, without 'questions', or with up
\* to MaxKeys question records
KeyDocs ==
  {NoneValue, DocNoQuestions}
  \cup {[examDetails |-> [year |-> 2018], questions |-> [k \in S |-> Q1]] :
          S \in {T \in SUBSET KeyPool : Cardinality(T) <= MaxKeys}}

InitQuestions ==
  /\ pc = "questions"
  /\ built = FALSE
  /\ initial_question_index = 0
  /\ OnDisk(CHOOSE d \in DisksWithin(0) : TRUE)
  /\ sessionFile = MissingFile
  /\ args = [pdf |-> DefaultStem, bbox |-> DefaultStem, ocr |-> DefaultStem]
  /\ exit_code = -1
  /\ reported = <<>>
  /\ \E doc \in KeyDocs :
       dm = [DataManager(DefaultStem, DefaultStem, DefaultStem) EXCEPT !.ocr_data = doc]
  /\ qm = QuestionManager
  /\ view = MainView
  /\ msgs = <<>>
  /\ raised = "none"
  /\ openDocs = {}
  /\ opened = 0
  /\ session_result = [raised |-> "none", value |-> NoneValue]
  /\ hist = InitHist
  /\ ops = 0

\* a QuestionManager method was called: r is its result [qm, ok]
Called(op, r) ==
  /\ pc = "questions"
  /\ qm' = r.qm
  /\ hist' = [hist EXCEPT !.op = op, !.ret = r.ok, !.before = qm.current_question_index,
                          !.prev = [op |-> hist.op, ret |-> hist.ret, before |-> hist.before]]
  /\ UNCHANGED <<pc, MainVars, DiskVars, ocrFiles, sessionFile, dm, initial_question_index,
                 view, msgs, raised, openDocs, opened, session_result, ops>>

InitializeQuestions == \E r \in {initialize_questions(qm, dm)} : Called("initialize_questions", r)

GoToNext == \E r \in {go_to_next(qm)} : Called("go_to_next", r)

GoToPrevious == \E r \in {go_to_previous(qm)} : Called("go_to_previous", r)

GoToQuestion ==
  \E index \in -1..MaxKeys : \E r \in {go_to_question(qm, index)} : Called("go_to_question", r)

NextQuestions == InitializeQuestions \/ GoToNext \/ GoToPrevious \/ GoToQuestion

\* the calls of a QuestionManager
SpecQuestions == InitQuestions /\ [][NextQuestions]_vars

-----------------------------------------------------------------------------
(* DataValidator alone *)

\* the dictionaries handed to validate_question_data: each of the three fields
\* is absent or holds one of a few values
ValidatorTexts == {<<>>, <<" ">>, <<"Q">>, <<" ", "Q", "\t">>}
ValidatorOptions == {[i \in 1..n |-> <<"a">>] : n \in 0..MaxOptionCount}
ValidatorAnswers ==
  {JInt(n) : n \in -1..(MaxOptionCount + 1)}
  \cup {JStr(<<>>), JStr(<<"x">>), JStr(<<"2">>), JStr(<<" ", "1", " ">>), JStr(<<"2", ".", "0">>)}
WithField(d, k, values) == {d} \cup {Put(d, k, v) : v \in values}
ValidatorInputs ==
  UNION {UNION {WithField(d2, "correctOption", ValidatorAnswers) :
                  d2 \in WithField(d1, "options", ValidatorOptions)} :
           d1 \in WithField([imagePath |-> <<>>], "questionText", ValidatorTexts)}

InitValidator ==
  /\ pc = "validator"
  /\ built = FALSE
  /\ initial_question_index = 0
  /\ OnDisk(CHOOSE d \in DisksWithin(0) : TRUE)
  /\ sessionFile = MissingFile
  /\ InitCommon

\* DataValidator.validate_question_data(data)
Validate ==
  /\ pc = "validator"
  /\ \E data \in ValidatorInputs : \E r \in {validate_question_data(data)} :
       hist' = [hist EXCEPT !.op = "validate_question_data", !.data = data,
                            !.ret = r.is_valid, !.errors = r.errors]
  /\ UNCHANGED <<pc, MainVars, DiskVars, ocrFiles, sessionFile, dm, qm, initial_question_index,
                 view, msgs, raised, openDocs, opened, session_result, ops>>

NextValidator == Validate

\* the calls of the validator
SpecValidator == InitValidator /\ [][NextValidator]_vars

-----------------------------------------------------------------------------
(* Runs of Next and Previous, on a presenter that has started *)

\* the presenter as ApplicationBuilder would hand it to start()
BuiltPresenter(index) ==
  [dm |-> DataManager(DefaultStem, DefaultStem, DefaultStem), qm |-> QuestionManager,
   initial_question_index |-> index, view |-> MainView, msgs |-> <<>>, openDocs |-> {},
   opened |-> 0, faults |-> {}, displayed |-> FALSE]

\* after start(); hist.before is the index at which the current run of
\* calls began and ops the number of calls in the run
InitNavigation ==
  /\ pc = "navigation"
  /\ built = TRUE
  /\ \E d \in DisksWithin(MaxFaults), index \in 0..MaxInitialIndex :
       /\ OnDisk(d)
       /\ \E st \in {start(BuiltPresenter(index), d.pdf, d.bbox, d.ocr)} :
            /\ dm = st.dm /\ qm = st.qm /\ initial_question_index = st.initial_question_index
            /\ view = st.view /\ msgs = st.msgs /\ openDocs = st.openDocs /\ opened = st.opened
            /\ hist = [InitHist EXCEPT !.op = "start", !.loaded = st.dm.ocr_data,
                                       !.faults = st.faults,
                                       !.before = st.qm.current_question_index]
  /\ sessionFile = MissingFile
  /\ args = [pdf |-> DefaultStem, bbox |-> DefaultStem, ocr |-> DefaultStem]
  /\ exit_code = -1
  /\ reported = <<>>
  /\ raised = "none"
  /\ session_result = [raised |-> "none", value |-> NoneValue]
  /\ ops = 0

\* one more call of the handler op, which turns St into st
NavigationCall(op, st) ==
  /\ pc = "navigation"
  /\ hist.op = op => ops < MaxRun
  /\ Commit(st)
  /\ hist' = [Seen(op, "", st) EXCEPT
                !.before = IF hist.op = op THEN @ ELSE qm.current_question_index]
  /\ ops' = IF hist.op = op THEN ops + 1 ELSE 1
  /\ UNCHANGED <<pc, MainVars, DiskVars, ocrFiles, sessionFile, raised, session_result>>

NavigateNext ==
  \E st \in {handle_next_question(St)} : NavigationCall("handle_next_question", st)

NavigatePrevious ==
  \E st \in {handle_previous_question(St)} : NavigationCall("handle_previous_question", st)

NextNavigation == NavigateNext \/ NavigatePrevious

\* runs of Next and Previous after startup
SpecNavigation == InitNavigation /\ [][NextNavigation]_vars

-----------------------------------------------------------------------------
(* The selection on the PDF label: mouse events, Capture's crop, a new display *)

\* pointer positions on the label (and its corner, the null point)
SelectionPoints == {Point(x, y) : x, y \in {0, 2, LabelSide - 1}}

\* a display as _show_question passes it to the view
OneDisplay ==
  [any |-> TRUE, key |-> <<"1">>, index |-> 0, total |-> 1, prev_state |-> "disabled",
   next_state |-> "disabled", ocr_data |-> Q1]

\* the view as built, or after a first question was displayed
InitSelection ==
  /\ pc = "selection"
  /\ built = TRUE
  /\ initial_question_index = 0
  /\ OnDisk(CHOOSE d \in DisksWithin(0) : TRUE)
  /\ sessionFile = MissingFile
  /\ args = [pdf |-> DefaultStem, bbox |-> DefaultStem, ocr |-> DefaultStem]
  /\ exit_code = -1
  /\ reported = <<>>
  /\ dm = DataManager(DefaultStem, DefaultStem, DefaultStem)
  /\ qm = QuestionManager
  /\ view \in {MainView, update_question_display(MainView, OneDisplay)}
  /\ msgs = <<>>
  /\ raised = "none"
  /\ openDocs = {}
  /\ opened = 0
  /\ session_result = [raised |-> "none", value |-> NoneValue]
  /\ hist = InitHist
  /\ ops = 0

SelectionFrame ==
  UNCHANGED <<pc, MainVars, DiskVars, ocrFiles, sessionFile, dm, qm, initial_question_index,
              msgs, raised, openDocs, opened, session_result, ops>>

\* MainView.eventFilter for a mouse event of the widget source; hist.data
\* keeps the event and hist.ret whether the selection manager consumed it
SelectionEvent(source, kind) ==
  /\ pc = "selection"
  /\ \E pos \in SelectionPoints :
       /\ view' = eventFilter(view, source, kind, pos)
       /\ hist' = [hist EXCEPT !.op = "eventFilter",
                               !.data = [source |-> source, kind |-> kind, pos |-> pos],
                               !.ret = mouse_event_consumed(view, source, kind)]
  /\ SelectionFrame

LabelPress == SelectionEvent("pdf_render_label", "press")
LabelMove == SelectionEvent("pdf_render_label", "move")
LabelRelease == SelectionEvent("pdf_render_label", "release")
OtherWidgetEvent ==
  \E kind \in {"press", "move", "release"} : SelectionEvent("txt_editor_question", kind)

\* SelectionManager.get_cropped_image; hist.data keeps the rectangle of the
\* image returned (NullRect for None)
CropImage ==
  /\ pc = "selection"
  /\ \E r \in {get_cropped_image(view)} :
       /\ view' = r.view
       /\ hist' = [hist EXCEPT !.op = "get_cropped_image", !.data = r.image,
                               !.ret = r.image # NullRect]
  /\ SelectionFrame

\* MainView.update_question_display for a new question
ShowQuestion ==
  /\ pc = "selection"
  /\ view' = update_question_display(view, OneDisplay)
  /\ hist' = [hist EXCEPT !.op = "update_question_display", !.data = NoneValue, !.ret = FALSE]
  /\ SelectionFrame

NextSelection ==
  LabelPress \/ LabelMove \/ LabelRelease \/ OtherWidgetEvent \/ CropImage \/ ShowQuestion

\* mouse events, crops and displays in any order
SpecSelection == InitSelection /\ [][NextSelection]_vars

-----------------------------------------------------------------------------
(* TableManager alone *)

\* the cell texts and the columns populate_table is given
CellTexts == {<<>>, <<"p">>, <<"q">>}
RECURSIVE ColumnsUpTo(_)
ColumnsUpTo(n) ==
  IF n = 0 THEN {<<>>}
  ELSE ColumnsUpTo(n - 1) \cup {Append(c, t) : c \in {x \in ColumnsUpTo(n - 1) : Len(x) = n - 1},
                                               t \in CellTexts}
TableInputs ==
  {NoMatch} \cup {MatchColumns(a, b) : a \in ColumnsUpTo(MaxRows), b \in ColumnsUpTo(MaxRows)}

InitTable ==
  /\ pc = "table"
  /\ built = FALSE
  /\ initial_question_index = 0
  /\ OnDisk(CHOOSE d \in DisksWithin(0) : TRUE)
  /\ sessionFile = MissingFile
  /\ InitCommon

\* TableManager.populate_table(match_data); hist.data keeps the argument
PopulateTable ==
  /\ pc = "table"
  /\ \E match_data \in TableInputs :
       /\ view' = [view EXCEPT !.form.table = populate_table(match_data)]
       /\ hist' = [hist EXCEPT !.op = "populate_table", !.data = match_data]
  /\ UNCHANGED <<pc, MainVars, DiskVars, ocrFiles, sessionFile, dm, qm, initial_question_index,
                 msgs, raised, openDocs, opened, session_result, ops>>

\* TableManager.get_table_data(), with no edit since populate_table;
\* hist.loaded keeps what it returned
GetTableData ==
  /\ pc = "table" /\ hist.op = "populate_table"
  /\ hist' = [hist EXCEPT !.op = "get_table_data", !.loaded = get_table_data(view.form.table)]
  /\ UNCHANGED <<pc, MainVars, DiskVars, ocrFiles, sessionFile, dm, qm, initial_question_index,
                 view, msgs, raised, openDocs, opened, session_result, ops>>

NextTable == PopulateTable \/ GetTableData

\* the calls of the table manager
SpecTable == InitTable /\ [][NextTable]_vars

-----------------------------------------------------------------------------
(* Properties *)

\* the OCR document of the presenter: its questions as loaded, in memory and in
\* the file, and the record key of the question the last save handler worked on
LoadedQuestions == Get(hist.loaded, "questions", EmptyDict)
MemoryQuestions == Get(dm.ocr_data, "questions", EmptyDict)
FileQuestions == Get(ocrFiles[dm.ocr_json_path], "questions", EmptyDict)
SavedKey == QnPrefix \o hist.key

\* the record fields behind the editor fields the operator typed into before the save
EditedFields == {IF f = "answer" THEN "correctOption" ELSE f : f \in hist.saved_edited}

\* C1: after the current question is saved successfully through the editor
\* form (its first save since the load), every field of the loaded record
\* that the operator did not edit is in the saved file with its loaded value.
C1_RoundTrip ==
  (/\ hist.op = "handle_save" /\ hist.outcome = "saved" /\ hist.saved_fresh
   /\ SavedKey \in DOMAIN LoadedQuestions)
  => \A f \in DOMAIN LoadedQuestions[SavedKey] \ EditedFields :
       /\ f \in DOMAIN FileQuestions[SavedKey]
       /\ FileQuestions[SavedKey][f] = LoadedQuestions[SavedKey][f]

C3_IndexWithinKeys ==
  0 <= qm.current_question_index /\ qm.current_question_index < Len(qm.question_keys)

\* C3: in every state the navigation index is 0 while question_keys is empty
\* (from construction until a load finds questions), and otherwise satisfies
\* 0 <= current_question_index < len(question_keys).
C3_IndexInRange ==
  IF qm.question_keys = <<>> THEN qm.current_question_index = 0
  ELSE 0 <= qm.current_question_index /\ qm.current_question_index < Len(qm.question_keys)

\* Next was asked for and the index is on the last of several questions
C3_Witness ==
  /\ hist.op = "handle_next_question"
  /\ Len(qm.question_keys) >= 2
  /\ qm.current_question_index = Len(qm.question_keys) - 1

\* correctOption of the record r is an integer within 1..len(options)
InRange(r) ==
  /\ "correctOption" \in DOMAIN r /\ "options" \in DOMAIN r
  /\ r.correctOption.kind = "int"
  /\ 1 <= r.correctOption.n /\ r.correctOption.n <= Len(r.options)

\* C4 as stated: every record a save handler (form or capture) stored and
\* wrote has an integer correctOption within 1..len(options).
C4_StoredInRange ==
  (hist.op \in {"handle_save", "handle_save_selection"} /\ hist.outcome = "saved")
  => InRange(FileQuestions[SavedKey])

\* C4: every record handle_save_form_data stores has an integer correctOption
\* within 1..len(options), in memory and, once written, in the file.
C4_FormSaveInRange ==
  (hist.op = "handle_save" /\ hist.outcome \in {"saved", "write_failed"})
  => /\ InRange(MemoryQuestions[SavedKey])
     /\ hist.outcome = "saved" => FileQuestions[SavedKey] = MemoryQuestions[SavedKey]

\* the operator typed an answer and the form save stored and wrote the record
C4_Witness ==
  hist.op = "handle_save" /\ hist.outcome = "saved" /\ "answer" \in hist.saved_edited

\* C5: when the window is closed with file F loaded and question index i
\* current, the session file holds the record (F, i) for the next run to read.
C5_SessionWrittenOnExit ==
  (pc = "closed" /\ hist.closed.any)
  => sessionFile = File(<<JsonText(SessionData(hist.closed.path, hist.closed.index))>>, TRUE)

HoldsSessionRecord(file) ==
  /\ file # MissingFile
  /\ file.accessible
  /\ Len(file.chunks) = 1
  /\ file.chunks[1].kind = "json"
  /\ DOMAIN file.chunks[1].value = {"ocr_json_path", "last_question_index"}

\* C7: load_session never raises; it returns the session record when the file
\* holds one and None when the file is missing, unreadable or holds anything else.
C7_NoneUnlessRecord ==
  hist.op = "load_session"
  => /\ session_result.raised = "none"
     /\ session_result.value = IF HoldsSessionRecord(sessionFile)
                               THEN sessionFile.chunks[1].value ELSE NoneValue

\* the required files of the parsed arguments that do not exist
MissingNames ==
  (IF pdfFiles[args.pdf] = "missing" THEN {"pdf"} ELSE {})
  \cup (IF bboxFiles[args.bbox] = MissingFile THEN {"bbox"} ELSE {})
  \cup (IF ocrFiles[args.ocr] = MissingFile THEN {"ocr"} ELSE {})

\* C8: once validate_required_files has run, if a required file is missing
\* the process has exited with code 1, the application was not built, and the
\* reported list names exactly the missing files; if none is missing the
\* function returned normally and reported nothing.
C8_StartupCheck ==
  pc # "main"
  => IF MissingNames # {}
     THEN /\ pc = "exited" /\ exit_code = 1 /\ ~built
          /\ {reported[i] : i \in DOMAIN reported} = MissingNames
          /\ Len(reported) = Cardinality(MissingNames)
     ELSE /\ reported = <<>>
          /\ hist.op = "validate_required_files" => pc = "validated" /\ exit_code = -1

\* the check ended the process and reported several missing files
C8_Witness == pc = "exited" /\ exit_code = 1 /\ Len(reported) >= 2

\* C9: whenever a presenter operation met a failure, no exception left the
\* operation and the operator was shown an error message.
C9_FailuresCaughtAndShown ==
  hist.faults # {}
  => /\ raised = "none"
     /\ \E i \in DOMAIN msgs : msgs[i].msg_type = "error"

\* C10: after handle_closing no PDF document opened during the session is
\* open and data_manager.doc is None.
C10_NoDocumentOpenAfterClosing ==
  pc = "closed" => openDocs = {} /\ dm.doc = 0

\* C11: after initialize_questions, question_keys holds one decimal string
\* per key 'qn_<N>' of ocr_data['questions'] whose suffix is an integer, in
\* ascending numeric order, and nothing else; the call returns True exactly
\* when there is such a key.
C11_KeysSorted ==
  hist.op = "initialize_questions"
  => LET questions == Get(dm.ocr_data, "questions", EmptyDict)
         numbered == {k \in DOMAIN questions :
                        /\ Len(k) >= 3 /\ SubSeq(k, 1, 3) = <<"q", "n", "_">>
                        /\ PyInt(SubSeq(k, 4, Len(k))).ok}
         keys == qm.question_keys
     IN /\ hist.ret <=> numbered # {}
        /\ hist.ret => keys # <<>>
        /\ Len(keys) = Cardinality(numbered)
        /\ \A i \in 1..Len(keys) :
             \E k \in numbered : keys[i] = PyStr(PyInt(SubSeq(k, 4, Len(k))).n)
        /\ \A k \in numbered :
             \E i \in 1..Len(keys) : keys[i] = PyStr(PyInt(SubSeq(k, 4, Len(k))).n)
        /\ \A i, j \in 1..Len(keys) : i < j => PyInt(keys[i]).n <= PyInt(keys[j]).n

\* True was returned for a document whose keys 'qn_10' and 'qn_2' differ in
\* numeric and lexicographic order, beside a key that is not numbered
C11_Witness ==
  /\ hist.op = "initialize_questions" /\ hist.ret
  /\ qm.question_keys = <<<<"2">>, <<"1", "0">>>>
  /\ Cardinality(DOMAIN dm.ocr_data.questions) = 3

\* C12: go_to_next returns True iff the index was below len(question_keys)-1
\* and then adds exactly 1; go_to_previous returns True iff the index was
\* above 0 and then subtracts exactly 1; on False the index is unchanged; a
\* successful go_to_next right after a successful go_to_previous, or the
\* other way round, is back on the index before the two.
C12_LinearNavigation ==
  /\ hist.op = "go_to_next"
     => /\ hist.ret <=> hist.before < Len(qm.question_keys) - 1
        /\ qm.current_question_index = IF hist.ret THEN hist.before + 1 ELSE hist.before
  /\ hist.op = "go_to_previous"
     => /\ hist.ret <=> hist.before > 0
        /\ qm.current_question_index = IF hist.ret THEN hist.before - 1 ELSE hist.before
  /\ (/\ {hist.op, hist.prev.op} = {"go_to_next", "go_to_previous"}
      /\ hist.ret /\ hist.prev.ret)
     => qm.current_question_index = hist.prev.before

\* a successful go_to_previous right after a successful go_to_next
C12_Witness ==
  /\ hist.op = "go_to_previous" /\ hist.ret
  /\ hist.prev.op = "go_to_next" /\ hist.prev.ret
  /\ hist.prev.before >= 1

\* C13: validate_question_data returns True exactly when questionText has a
\* character that is not white space, options has at least 2 entries and
\* correctOption converts to an integer c with 1 <= c <= len(options); the
\* error list has one message per violated rule, and is_valid is True iff
\* the list is empty.
C13_ValidatorRules ==
  hist.op = "validate_question_data"
  => LET data == hist.data
         text == IF "questionText" \in DOMAIN data THEN data.questionText ELSE <<>>
         options == IF "options" \in DOMAIN data THEN data.options ELSE <<>>
         c == IF "correctOption" \in DOMAIN data THEN IntOf(data.correctOption)
              ELSE [ok |-> TRUE, n |-> 0]
         text_ok == \E i \in 1..Len(text) : text[i] \notin {" ", "\t", "\n"}
         options_ok == Len(options) >= 2
         answer_ok == c.ok /\ 1 <= c.n /\ c.n <= Len(options)
         violated == (IF text_ok THEN 0 ELSE 1) + (IF options_ok THEN 0 ELSE 1)
                     + (IF answer_ok THEN 0 ELSE 1)
     IN /\ hist.ret <=> (text_ok /\ options_ok /\ answer_ok)
        /\ Len(hist.errors) = violated
        /\ hist.ret <=> hist.errors = <<>>

\* a record that breaks all three rules was refused with three messages
C13_Witness ==
  hist.op = "validate_question_data" /\ ~hist.ret /\ Len(hist.errors) = 3

\* a step in which handle_save_form_data refused the form
RejectedSaveStep ==
  ops' = ops + 1 /\ hist'.op = "handle_save" /\ hist'.outcome = "rejected"

\* C14: a form save that is refused (correctOption not an integer, or the
\* validator reports an error) leaves the in-memory ocr_data, the OCR file,
\* the index and the displayed question as they were and shows the operator
\* a validation error message.
C14_RejectedSaveShown ==
  [][RejectedSaveStep
     => /\ dm' = dm /\ ocrFiles' = ocrFiles /\ qm' = qm /\ view'.shown = view.shown
        /\ \E i \in DOMAIN view'.message_boxes :
             view'.message_boxes[i].title = "Validation Error"]_vars

\* C14, the part that holds: a refused form save leaves the in-memory
\* ocr_data, the OCR file, the index and the displayed question as they were,
\* and the presenter calls view.show_message once, with the title
\* "Validation Error".
C14_RejectedSaveFrame ==
  [][RejectedSaveStep
     => /\ dm' = dm /\ ocrFiles' = ocrFiles /\ qm' = qm /\ view'.shown = view.shown
        /\ Len(msgs') = 1 /\ msgs'[1].title = "Validation Error"]_vars

\* a step in which load_files found the PDF or the bbox file missing
RefusedLoadStep ==
  ops' = ops + 1 /\ hist'.op = "load_files" /\ hist'.outcome = "refused"

\* C15: when the derived PDF or bbox file does not exist, load_files leaves
\* data_manager, question_manager (its keys and index) and
\* initial_question_index exactly as they were and shows the operator an
\* error message.
C15_RefusedLoadShown ==
  [][RefusedLoadStep
     => /\ dm' = dm /\ qm' = qm /\ initial_question_index' = initial_question_index
        /\ view'.shown = view.shown
        /\ \E i \in DOMAIN view'.message_boxes : view'.message_boxes[i].msg_type = "error"]_vars

\* C15, the part that holds: load_files with a missing derived file leaves
\* data_manager, question_manager and initial_question_index exactly as they
\* were, and the presenter calls view.show_message once, with an error.
C15_RefusedLoadFrame ==
  [][RefusedLoadStep
     => /\ dm' = dm /\ qm' = qm /\ initial_question_index' = initial_question_index
        /\ view'.shown = view.shown /\ openDocs' = openDocs
        /\ Len(msgs') = 1 /\ msgs'[1].msg_type = "error"]_vars

\* a step in which handle_save_form_data stored the form and wrote the file
SavedFormStep ==
  ops' = ops + 1 /\ hist'.op = "handle_save" /\ hist'.outcome = "saved"

\* the index after a successful form save at index i of n questions
AdvancedFrom(i, n) == IF i < n - 1 THEN i + 1 ELSE n - 1

\* the record handle_save_form_data makes of the editor form: the form with
\* correctOption converted by int()
FormRecord ==
  LET form_data == get_editor_data(view.form)
  IN [form_data EXCEPT !.correctOption = JInt(IntOf(form_data.correctOption).n)]

\* the questions in memory after the step
MemoryQuestionsAfter == Get(dm'.ocr_data, "questions", EmptyDict)

\* C16: when handle_save_form_data succeeds at index i with n questions, the
\* resulting current_question_index is i+1 if i < n-1 and remains n-1 if
\* i = n-1; the record written is the one for the question at index i, never
\* the one for the question at index i+1: every other question's record is in
\* memory and in the file as it was in memory before the save.
C16_AutoAdvance ==
  [][SavedFormStep
     => LET i == qm.current_question_index
            n == Len(qm.question_keys)
        IN /\ qm'.current_question_index = AdvancedFrom(i, n)
           /\ qm'.question_keys = qm.question_keys
           /\ MemoryQuestionsAfter[QnPrefix \o qm.question_keys[i + 1]] = FormRecord
           /\ ocrFiles'[dm.ocr_json_path].questions[QnPrefix \o qm.question_keys[i + 1]] = FormRecord
           /\ \A j \in (1..n) \ {i + 1} :
                LET k == QnPrefix \o qm.question_keys[j] IN
                /\ k \in DOMAIN MemoryQuestionsAfter <=> k \in DOMAIN MemoryQuestions
                /\ k \in DOMAIN MemoryQuestions
                     => /\ MemoryQuestionsAfter[k] = MemoryQuestions[k]
                        /\ ocrFiles'[dm.ocr_json_path].questions[k] = MemoryQuestions[k]]_vars

\* question_keys contains no value twice
DistinctKeys(q) ==
  \A a, b \in DOMAIN q.question_keys : q.question_keys[a] = q.question_keys[b] => a = b

\* C16, the part that holds: a successful form save always moves the index
\* from i to i+1, or leaves it at n-1; and while question_keys contains no
\* value twice, the record written is the one under 'qn_' + question_keys[i]
\* and every other question's record stays as it was.
C16_AutoAdvanceDistinctKeys ==
  [][SavedFormStep
     => LET i == qm.current_question_index
            n == Len(qm.question_keys)
        IN /\ qm'.current_question_index = AdvancedFrom(i, n)
           /\ qm'.question_keys = qm.question_keys
           /\ MemoryQuestionsAfter[QnPrefix \o qm.question_keys[i + 1]] = FormRecord
           /\ ocrFiles'[dm.ocr_json_path].questions[QnPrefix \o qm.question_keys[i + 1]] = FormRecord
           /\ DistinctKeys(qm)
                => \A j \in (1..n) \ {i + 1} :
                     LET k == QnPrefix \o qm.question_keys[j] IN
                     /\ k \in DOMAIN MemoryQuestionsAfter <=> k \in DOMAIN MemoryQuestions
                     /\ k \in DOMAIN MemoryQuestions
                          => /\ MemoryQuestionsAfter[k] = MemoryQuestions[k]
                             /\ ocrFiles'[dm.ocr_json_path].questions[k] = MemoryQuestions[k]]_vars

\* a step of handle_goto_question; hist'.key is str(value)
GotoStep == ops' = ops + 1 /\ hist'.op = "handle_goto_question"

\* the positions (0-based) of the key s in question_keys
PositionsOf(q, s) == {p \in 0..(Len(q.question_keys) - 1) : q.question_keys[p + 1] = s}

\* C17: handle_goto_question(value) takes a question number, not a list
\* index: if str(value) is an element of question_keys the current index
\* becomes the position of that element; if it is not (a gap or a number out
\* of range) the index and the displayed question are unchanged and no error
\* is raised or reported.
C17_GotoByNumber ==
  [][GotoStep
     => LET found == PositionsOf(qm, hist'.key) IN
        IF found # {}
        THEN /\ qm'.question_keys = qm.question_keys
             /\ qm'.current_question_index \in found
             /\ \A p \in found : qm'.current_question_index <= p
        ELSE /\ qm' = qm /\ view' = view /\ dm' = dm
             /\ raised' = "none" /\ msgs' = <<>>]_vars

\* goto was asked for a number that is a key, and the index is now that key's
\* position, which differs from the number
C17_Witness ==
  /\ hist.op = "handle_goto_question"
  /\ qm.current_question_index \in PositionsOf(qm, hist.key)
  /\ hist.key # PyStr(qm.current_question_index)
  /\ hist.key # PyStr(qm.current_question_index + 1)

\* goto was asked for a number in a gap of the numbering, and a question is displayed
C17_WitnessGap ==
  /\ hist.op = "handle_goto_question"
  /\ PositionsOf(qm, hist.key) = {}
  /\ Len(qm.question_keys) >= 2
  /\ view.shown.any

\* a step in which _show_question passed a new display to the view
DisplayStep == view'.shown # view.shown

\* C18: for every display produced by _show_question(index) with n
\* questions, prev_state is 'disabled' iff index = 0, next_state is
\* 'disabled' iff index = n-1, the label gives position index+1 of n, and the
\* ocr_data shown is the record stored under 'qn_' + question_keys[index].
\* The index displayed is the current one, or the one a form save has just
\* advanced from.
C18_DisplayData ==
  [][DisplayStep
     => LET d == view'.shown
            n == Len(qm'.question_keys)
        IN /\ d.any
           /\ 0 <= d.index /\ d.index < n /\ d.total = n
           /\ \/ d.index = qm'.current_question_index
              \/ hist'.op = "handle_save" /\ d.index + 1 = qm'.current_question_index
           /\ d.prev_state \in {"normal", "disabled"}
           /\ d.next_state \in {"normal", "disabled"}
           /\ d.prev_state = "disabled" <=> d.index = 0
           /\ d.next_state = "disabled" <=> d.index = n - 1
           /\ d.key = qm'.question_keys[d.index + 1]
           /\ d.ocr_data = Get(MemoryQuestionsAfter, QnPrefix \o d.key, EmptyDict)]_vars

\* Next has moved to the last of several questions and displayed it
C18_Witness ==
  /\ hist.op = "handle_next_question" /\ hist.faults = {}
  /\ Len(qm.question_keys) >= 2
  /\ qm.current_question_index = Len(qm.question_keys) - 1
  /\ view.shown.any /\ view.shown.index = qm.current_question_index
  /\ view.shown.next_state = "disabled" /\ view.shown.prev_state = "normal"
  /\ view.shown.ocr_data # EmptyDict

\* a step of handle_save_selection; hist'.key is the current question key
SelectionStep == ops' = ops + 1 /\ hist'.op = "handle_save_selection"

\* C19: handle_save_selection changes only the imagePath field of the
\* current question's record: every other field of that record, every other
\* record and every other entry of ocr_data keep the values they had in
\* memory, and the file written holds exactly that; when no selection exists
\* or no question is current, nothing is changed, written or reported (the
\* rubber band is hidden).
C19_OnlyImagePath ==
  [][SelectionStep
     => LET k == QnPrefix \o hist'.key
            outcome == hist'.outcome
        IN /\ qm' = qm
           /\ outcome \in {"saved", "write_failed"}
                => LET old == Get(MemoryQuestions, k, EmptyDict)
                       new == MemoryQuestionsAfter[k]
                   IN /\ DOMAIN new = DOMAIN old \cup {"imagePath"}
                      /\ \A f \in DOMAIN old \ {"imagePath"} : new[f] = old[f]
                      /\ new.imagePath = <<"images/">> \o PyStr(dm.ocr_data.examDetails.year)
                                           \o <<"_">> \o hist'.key \o <<".jpg">>
                      /\ DOMAIN MemoryQuestionsAfter = DOMAIN MemoryQuestions \cup {k}
                      /\ \A q \in DOMAIN MemoryQuestions \ {k} :
                           MemoryQuestionsAfter[q] = MemoryQuestions[q]
                      /\ DOMAIN dm'.ocr_data = DOMAIN dm.ocr_data
                      /\ \A e \in DOMAIN dm.ocr_data \ {"questions"} : dm'.ocr_data[e] = dm.ocr_data[e]
                      /\ \A s \in Stems \ {dm.ocr_json_path} : ocrFiles'[s] = ocrFiles[s]
                      /\ outcome = "saved" => ocrFiles'[dm.ocr_json_path] = dm'.ocr_data
           /\ outcome \notin {"saved", "write_failed"}
                => /\ dm' = dm /\ ocrFiles' = ocrFiles
                   /\ view'.shown = view.shown /\ view'.form = view.form
           /\ outcome \in {"no_question", "no_selection"}
                => /\ view' = [view EXCEPT !.rubber_band.visible =
                                 IF outcome = "no_selection" THEN FALSE ELSE @]
                   /\ msgs' = <<>> /\ raised' = "none"]_vars

\* a capture was stored and written for a record that has other fields to keep
C19_Witness ==
  /\ hist.op = "handle_save_selection" /\ hist.outcome = "saved"
  /\ SavedKey \in DOMAIN MemoryQuestions
  /\ {"questionText", "options", "correctOption", "page", "bbox", "imagePath"}
       \subseteq DOMAIN MemoryQuestions[SavedKey]
  /\ FileQuestions[SavedKey] = MemoryQuestions[SavedKey]

\* Capture was asked for while a question was displayed and no selection existed
C19_WitnessNoSelection ==
  /\ hist.op = "handle_save_selection" /\ hist.outcome = "no_selection"
  /\ view.shown.any /\ hist.key # <<>>

\* Capture was asked for while no question was current
C19_WitnessNoQuestion ==
  hist.op = "handle_save_selection" /\ hist.outcome = "no_question"

\* a step in which start() ran: at startup, or from load_files once the
\* derived files were found
StartedStep ==
  \/ hist'.op = "start"
  \/ ops' = ops + 1 /\ hist'.op = "load_files" /\ hist'.outcome # "refused"

\* after the step: load_all_data returned True and initialize_questions found a question
LoadedWithQuestions == "load" \notin hist'.faults /\ qm'.question_keys # <<>>

\* C20: start() with data that loads and at least one question makes the
\* question at initial_question_index current and displays it: after start
\* returns, current_question_index = initial_question_index and the view
\* shows that question; when loading fails or no question exists, no question
\* is displayed.
C20_StartShowsInitial ==
  [][StartedStep
     => IF LoadedWithQuestions
        THEN /\ qm'.current_question_index = initial_question_index'
             /\ view'.shown.any
             /\ view'.shown.index = initial_question_index'
             /\ view'.shown.key = qm'.question_keys[initial_question_index' + 1]
        ELSE ~view'.shown.any]_vars

\* C20, the part that holds: start() makes the question at
\* initial_question_index current when that index is within question_keys,
\* and displays it when moreover the bbox file has an entry for it; in every
\* other case (index out of range, no bbox entry, loading failed, no
\* question) the view keeps whatever it displayed before, and with an index
\* out of range the current index stays 0.
C20_StartShowsInitialInRange ==
  [][StartedStep
     => LET i == initial_question_index'
            n == Len(qm'.question_keys)
        IN IF LoadedWithQuestions /\ 0 <= i /\ i < n
           THEN /\ qm'.current_question_index = i
                /\ IF get_question_bbox_data(dm', qm'.question_keys[i + 1]) # NoneValue
                   THEN /\ view'.shown.any /\ view'.shown.index = i
                        /\ view'.shown.key = qm'.question_keys[i + 1]
                   ELSE view'.shown = view.shown
           ELSE /\ view'.shown = view.shown
                /\ qm'.current_question_index = 0]_vars

\* the three files named on the command line exist and load
ArgumentFilesLoad ==
  /\ pdfFiles[args.pdf] = "ok"
  /\ bboxFiles[args.bbox] \in {BboxFull, BboxPartial}
  /\ IsDict(ocrFiles[args.ocr])

\* C21: when all three required files exist and load, run_application builds
\* the presenter with every collaborator it requires (view, question
\* manager, data manager, path manager, image directory, session manager)
\* and goes on to presenter.start() and the event loop, instead of returning
\* the failure code 1 of its exception path.
C21_ApplicationAssembled ==
  (hist.op = "run_application" /\ ArgumentFilesLoad)
  => /\ built /\ pc = "built"
     /\ exit_code # 1
     /\ \A i \in DOMAIN PresenterRequired :
          \E j \in DOMAIN BuildArguments : BuildArguments[j] = PresenterRequired[i]

\* C22: populating the match-columns table with columnA and columnB and
\* reading it back without edits returns the same two lists; the result is
\* None exactly when there are no rows.
C22_TableRoundTrip ==
  hist.op = "get_table_data"
  => /\ ~hist.data.isNone => hist.loaded = hist.data
     /\ hist.loaded = NoMatch <=> Len(view.form.table) = 0

\* the column c padded with empty strings to n entries
PaddedTo(c, n) == [r \in 1..n |-> IF r <= Len(c) THEN c[r] ELSE <<>>]

\* C22, the part that holds: reading the table back returns None when there
\* are no rows (no match data, or two empty lists), and otherwise both lists
\* padded with empty strings to the length of the longer one, which are the
\* lists given when they have the same length.
C22_TableRoundTripPadded ==
  hist.op = "get_table_data"
  => LET n == IF hist.data.isNone THEN 0
              ELSE Max(Len(hist.data.columnA), Len(hist.data.columnB))
     IN /\ Len(view.form.table) = n
        /\ hist.loaded = NoMatch <=> n = 0
        /\ n > 0 => hist.loaded = MatchColumns(PaddedTo(hist.data.columnA, n),
                                                PaddedTo(hist.data.columnB, n))
        /\ (n > 0 /\ Len(hist.data.columnA) = Len(hist.data.columnB))
             => hist.loaded = hist.data

\* C23: after initialize_questions, question_keys and the 'qn_<N>' records
\* are in one-to-one correspondence: question_keys contains no value twice,
\* and for every k in question_keys the key 'qn_' + k exists in
\* ocr_data['questions'], so that get_question_ocr_data(k) returns the loaded
\* record and update_question_ocr_data(k, ...) overwrites an existing record
\* instead of creating a new one.
C23_KeyCorrespondence ==
  (pc = "questions" /\ hist.op = "initialize_questions" /\ hist.ret)
  => /\ DistinctKeys(qm)
     /\ \A i \in DOMAIN qm.question_keys :
          LET k == qm.question_keys[i] IN
          /\ QnPrefix \o k \in DOMAIN dm.ocr_data.questions
          /\ get_question_ocr_data(dm, k) = dm.ocr_data.questions[QnPrefix \o k]
          /\ DOMAIN update_question_ocr_data(dm, k, Q2).ocr_data.questions
               = DOMAIN dm.ocr_data.questions

\* the spelling of the number in the key is the one str() gives back
Canonical(key) == QnPrefix \o PyStr(KeyNumber(key)) = key

\* C23, the part that holds: question_keys has one entry for every record key
\* 'qn_<N>' whose suffix int() accepts; an entry whose record key is spelled
\* as str(int(N)) spells it leads back to that record.
C23_KeysOfCanonicalRecords ==
  (pc = "questions" /\ hist.op = "initialize_questions" /\ hist.ret)
  => LET numbered == NumberedKeys(dm.ocr_data.questions) IN
     /\ Len(qm.question_keys) = Cardinality(numbered)
     /\ \A key \in numbered :
          /\ \E i \in DOMAIN qm.question_keys : qm.question_keys[i] = PyStr(KeyNumber(key))
          /\ Canonical(key)
               => get_question_ocr_data(dm, PyStr(KeyNumber(key))) = dm.ocr_data.questions[key]
     /\ (\A key \in numbered : Canonical(key)) => DistinctKeys(qm)

\* the navigation, goto and save handlers
NavigationAndSaveOps ==
  {"handle_next_question", "handle_previous_question", "handle_goto_question",
   "handle_listbox_select", "handle_save", "handle_save_selection"}

\* the last handler was one of them, on a file with questions, with a question displayed
AfterNavigationOrSave ==
  /\ pc = "running" /\ hist.op \in NavigationAndSaveOps
  /\ qm.question_keys # <<>> /\ view.shown.any

\* C24: after any sequence of navigation, goto and save handlers, the
\* question whose data the editor form holds (the last one passed to
\* view.update_question_display) is the question at current_question_index,
\* so that handle_save stores the form under that question's key.
C24_EditorShowsCurrent ==
  AfterNavigationOrSave
  => /\ view.shown.index = qm.current_question_index
     /\ view.shown.key = get_current_question_key(qm)

\* C24, the part that holds: the editor holds the question at
\* current_question_index whenever the bbox file has an entry for that
\* question.
C24_EditorShowsCurrentWithBbox ==
  (AfterNavigationOrSave
   /\ get_question_bbox_data(dm, get_current_question_key(qm)) # NoneValue)
  => /\ view.shown.index = qm.current_question_index
     /\ view.shown.key = get_current_question_key(qm)

\* C24 as it fails: a form save stored the editor's contents, which were
\* those of another question, under the current question's key
C24_SavedOverOtherQuestion ==
  [][(SavedFormStep /\ view.shown.any)
     => view.shown.key = get_current_question_key(qm)]_vars

\* the last handler was a save handler (form save or capture)
AfterSaveHandler == hist.op \in {"handle_save", "handle_save_selection"}

\* C25: after every save handler returns, the in-memory ocr_data equals the
\* content last successfully written to (or loaded from) the OCR JSON file;
\* in particular when save_ocr_data returned False the in-memory question
\* record is not left holding the unsaved edit.
C25_MemoryEqualsFile ==
  (AfterSaveHandler /\ IsDict(dm.ocr_data))
  => dm.ocr_data = ocrFiles[dm.ocr_json_path]

\* C25, the part that holds: after a save handler whose write succeeded the
\* in-memory ocr_data equals the content of the file.
C25_MemoryEqualsFileWhenWritten ==
  (AfterSaveHandler /\ hist.outcome = "saved")
  => dm.ocr_data = ocrFiles[dm.ocr_json_path]

\* the DataManager that load_all_data was called on in a step that ran
\* start(): the one built before startup, or the one load_files has just made
DataManagerBeforeLoad ==
  IF hist'.op = "start" THEN dm
  ELSE DataManager(dm'.pdf_path, dm'.bbox_json_path, dm'.ocr_json_path)

\* C26: load_all_data is all-or-nothing: it returns True only when the PDF
\* is open and both JSON documents are parsed; when it returns False, doc,
\* bbox_data and ocr_data each hold the value they had before the call, and
\* no PDF handle opened by the failed call remains open.
C26_LoadAllOrNothing ==
  [][StartedStep
     => IF "load" \notin hist'.faults
        THEN /\ dm'.doc # 0 /\ dm'.doc \in openDocs'
             /\ IsDict(dm'.bbox_data) /\ IsDict(dm'.ocr_data)
        ELSE /\ dm' = DataManagerBeforeLoad
             /\ openDocs' \subseteq openDocs]_vars

\* C26, the part that holds: load_all_data returns True only when the PDF is
\* open and both JSON documents are parsed; when it returns False, every
\* step before the failing one has taken effect: a PDF that opened stays
\* open and assigned to doc, a bbox file that parsed stays in bbox_data, and
\* ocr_data holds the value it had before.
C26_LoadKeepsEarlierSteps ==
  [][StartedStep
     => IF "load" \notin hist'.faults
        THEN /\ dm'.doc # 0 /\ dm'.doc \in openDocs'
             /\ IsDict(dm'.bbox_data) /\ IsDict(dm'.ocr_data)
        ELSE /\ dm'.ocr_data = DataManagerBeforeLoad.ocr_data
             /\ IF pdfFiles[dm'.pdf_path] # "ok"
                THEN dm' = DataManagerBeforeLoad /\ openDocs' \subseteq openDocs
                ELSE /\ dm'.doc # 0 /\ dm'.doc \in openDocs' /\ dm'.doc \notin openDocs
                     /\ dm'.bbox_data = IF IsDict(bboxFiles[dm'.bbox_json_path])
                                        THEN bboxFiles[dm'.bbox_json_path]
                                        ELSE DataManagerBeforeLoad.bbox_data]_vars

\* a step in which load_files found the derived files and start() then
\* failed to load them or found no question
FailedSwitchStep ==
  /\ ops' = ops + 1 /\ hist'.op = "load_files" /\ hist'.outcome # "refused"
  /\ ~LoadedWithQuestions

\* C27: when load_files is called and the derived PDF and bbox files exist
\* but loading then fails inside start (unreadable PDF, malformed JSON, or no
\* questions), the previously loaded data_manager, question_manager,
\* question_keys and current_question_index remain in effect.
C27_FailedSwitchKeepsOldFile ==
  [][FailedSwitchStep => dm' = dm /\ qm' = qm]_vars

\* C27, the part that holds: after such a load_files the presenter holds the
\* data manager of the new file and a question manager with no question, so
\* that no question is current; the view still displays what it displayed.
C27_FailedSwitchLeavesNoQuestion ==
  [][FailedSwitchStep
     => /\ dm'.ocr_json_path \in Stems
        /\ dm'.pdf_path = dm'.ocr_json_path /\ dm'.bbox_json_path = dm'.ocr_json_path
        /\ "load" \in hist'.faults => ~IsDict(dm'.ocr_data)
        /\ qm' = QuestionManager
        /\ get_current_question_key(qm') = <<>>
        /\ view'.shown = view.shown /\ view'.form = view.form]_vars

\* C28: from any index i with n questions, repeated handle_next_question
\* calls make current_question_index reach n-1 after exactly n-1-i successful
\* steps, after which further calls leave it unchanged; symmetrically
\* repeated handle_previous_question reaches 0 and stays there.  After a run
\* of c calls that began at index i the index is min(i + c, n - 1), or
\* max(i - c, 0).
C28_NavigationTerminates ==
  pc = "navigation"
  => LET n == Len(qm.question_keys)
         i == hist.before
     IN /\ (hist.op = "handle_next_question" /\ n > 0)
             => qm.current_question_index = Min(i + ops, n - 1)
        /\ (hist.op = "handle_previous_question" /\ n > 0)
             => qm.current_question_index = Max(i - ops, 0)
        /\ n = 0 => qm.current_question_index = 0

\* a run of Next from the first of three questions has reached the last one
\* and a further call has left the index there
C28_Witness ==
  /\ pc = "navigation" /\ hist.op = "handle_next_question"
  /\ Len(qm.question_keys) = 3 /\ hist.before = 0 /\ ops = 3
  /\ qm.current_question_index = 2

\* a run of Previous from the last of three questions has reached the first
\* one and a further call has left the index there
C28_WitnessBack ==
  /\ pc = "navigation" /\ hist.op = "handle_previous_question"
  /\ Len(qm.question_keys) = 3 /\ hist.before = 2 /\ ops = 3
  /\ qm.current_question_index = 0

\* a step of the event filter for a mouse event; hist'.data is the event
FilterStep == pc = "selection" /\ hist'.op = "eventFilter" /\ hist' # hist

\* what C29 says of one event, where dragging tells whether a drag is in
\* progress before it
DragStateMachine(dragging) ==
  LET e == hist'.data
      origin == view.selection_origin
  IN IF e.source # "pdf_render_label"
     THEN view' = view /\ ~hist'.ret
     ELSE IF e.kind = "press"
     THEN /\ view'.selection_origin = e.pos
          /\ view'.rubber_band.visible
          /\ IsEmptyRect(view'.rubber_band.geometry)
          /\ hist'.ret
     ELSE IF ~dragging
     THEN view' = view /\ ~hist'.ret
     ELSE IF e.kind = "move"
     THEN /\ view'.rubber_band.geometry = Normalized(Rect(origin.x, origin.y, e.pos.x, e.pos.y))
          /\ view'.selection_origin = origin
          /\ view'.rubber_band.visible = view.rubber_band.visible
          /\ hist'.ret
     ELSE /\ view'.selection_origin = NoPoint
          /\ view'.rubber_band = view.rubber_band
          /\ hist'.ret

\* C29: on the PDF label a left-button press sets selection_origin and shows
\* the rubber band with empty geometry; a mouse move changes the geometry
\* only while selection_origin is set (between a press and the following
\* release) and always to the normalized rectangle spanned by the origin and
\* the pointer; a left-button release clears selection_origin and keeps the
\* geometry; events from any other widget, and moves or releases with no
\* drag in progress, are not consumed and change nothing.
C29_DragStateMachine ==
  [][FilterStep => DragStateMachine(view.selection_origin.set)]_vars

\* C29, the part that holds: the same state machine, in which a drag is in
\* progress while selection_origin is set to a point other than (0, 0).
C29_DragStateMachineOffCorner ==
  [][FilterStep => DragStateMachine(Truth(view.selection_origin))]_vars

\* a crop step and a display step
CropStep == pc = "selection" /\ hist'.op = "get_cropped_image" /\ hist' # hist
ShowStep == pc = "selection" /\ hist'.op = "update_question_display" /\ hist' # hist

\* C30: get_cropped_image translates the selection from label to pixmap
\* coordinates by the centring offset ((label size - pixmap size) / 2 per
\* axis) and returns an image whose rectangle lies entirely inside the
\* pixmap; it returns None when there is no pixmap, the selection is empty,
\* or the translated selection does not intersect the pixmap, and only then;
\* on every path the rubber band is hidden when it returns, and nothing else
\* of the selection changes; showing a new question also hides it.
C30_CropBounds ==
  [][/\ CropStep
        => LET offset == (LabelSide - PixmapSide) \div 2
               g == view.rubber_band.geometry
               image == hist'.data
               outside == \/ g.x2 - offset < 0 \/ g.x1 - offset > PixmapSide - 1
                          \/ g.y2 - offset < 0 \/ g.y1 - offset > PixmapSide - 1
           IN /\ ~view'.rubber_band.visible
              /\ view' = [view EXCEPT !.rubber_band.visible = FALSE]
              /\ image = NullRect <=> (~view.has_pixmap \/ IsEmptyRect(g) \/ outside)
              /\ image # NullRect
                   => /\ image.x1 = Max(g.x1 - offset, 0) /\ image.y1 = Max(g.y1 - offset, 0)
                      /\ image.x2 = Min(g.x2 - offset, PixmapSide - 1)
                      /\ image.y2 = Min(g.y2 - offset, PixmapSide - 1)
                      /\ 0 <= image.x1 /\ image.x1 <= image.x2 /\ image.x2 <= PixmapSide - 1
                      /\ 0 <= image.y1 /\ image.y1 <= image.y2 /\ image.y2 <= PixmapSide - 1
     /\ ShowStep => ~view'.rubber_band.visible]_vars

\* a crop has returned an image that is smaller than the selection drawn,
\* which reached beyond the pixmap, and the rubber band is hidden
C30_Witness ==
  /\ pc = "selection" /\ hist.op = "get_cropped_image" /\ hist.ret
  /\ hist.data # Translated(view.rubber_band.geometry, 0 - ((LabelSide - PixmapSide) \div 2),
                            0 - ((LabelSide - PixmapSide) \div 2))
  /\ view.rubber_band.geometry # RubberBandDefault
  /\ ~view.rubber_band.visible

\* a crop has returned None for a selection drawn beside the pixmap
C30_WitnessNone ==
  /\ pc = "selection" /\ hist.op = "get_cropped_image" /\ ~hist.ret
  /\ view.has_pixmap /\ ~IsEmptyRect(view.rubber_band.geometry)

====
